---- MODULE Spec2Model ----
(***************************************************************************)
(* The shim Tool (src/src/shimTool/Tool.py) and the first ExSI GUI         *)
(* (src/ExsiGui.py) as a state machine: the Tool object's attributes, the  *)
(* scanner (ExSI) client's command queue and completion signals, the shim  *)
(* client's command queue, the calling thread's position inside a          *)
(* macro-procedure and the kickoff worker threads it spawns.               *)
(***************************************************************************)
EXTENDS Integers, Sequences, FiniteSets, TLC

\* ------------------------------------------------------------- bounds ----
\* number of shim coils of the driver (shim client's numLoops)
NumLoops == 2
\* largest number of slices of an acquired volume (shape[1] of a B0 map)
MaxSlices == 3
\* number of operations the user starts in one behaviour
MaxCalls == 3
\* slices of the volumes of the exam the orchestration is followed on
ExamSlices == 2
\* scans the scanner fails in one behaviour
MaxFailures == 1
\* largest n of a countScansCompleted(n) call followed on its own
MaxCount == 3
\* Scan commands queued when the waits are followed on their own
MaxQueued == 3

\* --------------------------------------------------- program constants ---
gradientCalStrength == 60
loopCalCurrent == 1000

\* ------------------------------------------------------------ values -----
\* Python's None and a present value: a sequence of length 0 or 1.
None == <<>>
Some(x) == <<x>>
Val(o) == o[1]

\* A solution vector [cf, gx, gy, gz, current_0 .. current_{numLoops-1}].
VecIdx == 0..(NumLoops + 3)
ZeroVec == [j \in VecIdx |-> 0]
NumBasis == NumLoops + 3

\* A volume has S slices (axis 1) of pixels; a B0 map gives every slice the
\* acquisition it was measured in (tag) and the pixels that are not NaN.
Pixels == {"px"}
SliceIdx(S) == 0..(S - 1)
Voxels(S) == SliceIdx(S) \X Pixels
NaNSlice == [tag |-> 0, valid |-> {}]
NumSlicesOf(map) == Cardinality(DOMAIN map)
NonNan(map) == {v \in (DOMAIN map) \X Pixels : v[2] \in map[v[1]].valid}
AcquiredMap(S, tag, valid) ==
    [s \in SliceIdx(S) |-> [tag |-> tag, valid |-> {p \in Pixels : <<s, p>> \in valid}]]

\* ------------------------------------------- the field-map engine --------
\* maskOneSlice(mask, i): the mask with every slice but i cleared.
maskOneSlice(mask, i) == {v \in mask : v[1] = i}

\* subtractBackground(background, raw): raw[k] - background, NaN-propagating.
subtractBackground(background, raw) ==
    [k \in 1..Len(raw) |->
        Some([s \in DOMAIN background |->
                [tag |-> Val(raw[k])[s].tag,
                 valid |-> Val(raw[k])[s].valid \cap background[s].valid]])]

\* createMask(background, basis, roi): the ROI and the non-NaN region common
\* to the background and every basis map (an unset map or ROI constrains nothing).
createMask(background, basis, roi) ==
    LET all == (DOMAIN background) \X Pixels
        inBasis(v) == \A k \in 1..Len(basis) :
                         basis[k] = None \/ v \in NonNan(Val(basis[k]))
    IN  {v \in all : /\ v \in NonNan(background)
                     /\ inBasis(v)
                     /\ (roi = None \/ v \in Val(roi))}

\* The solver's answer for one slice: null when the mask is empty or the
\* system is rank deficient (fullRank: the solver's verdict, k: the data), else
\* a vector of numLoops + 4 coefficients.
SolVec(k, i) == [j \in VecIdx |-> k + i + j]
solveCurrents(mask, fullRank, k, i) ==
    IF mask = {} \/ ~fullRank THEN None ELSE Some(SolVec(k, i))

\* ------------------------------------------------ Tool: pure helpers ------
\* The result of running a piece of Tool code on the attributes t: the new
\* attributes, whether an exception escaped, and the returned truth value.
Ok(t, ret) == [t |-> t, raised |-> FALSE, ret |-> ret]
Raise(t) == [t |-> t, raised |-> TRUE, ret |-> FALSE]

\* computeMask: finalMask from the background, the basis maps and the ROI.
computeMask(t) ==
    IF t.backgroundB0Map = None
    THEN Raise(t)
    ELSE Ok([t EXCEPT !.finalMask =
                Some(createMask(Val(t.backgroundB0Map), t.basisB0maps, t.ROI))],
            TRUE)

\* resetShimSols
resetShimSols(t) ==
    [t EXCEPT !.solutions = None,
              !.solutionValuesToApply = None,
              !.shimStats = <<None, None, None>>,
              !.expectedB0Map = None,
              !.shimmedB0Map = None]

\* resetPrincipleSols: zero, then the scanner's own prescan values if known.
resetPrincipleSols(t, og) ==
    [t EXCEPT !.principleSols =
        Some([j \in VecIdx |-> IF og = None THEN 0
                               ELSE IF j <= 3 THEN Val(og)[j] ELSE 0])]

\* A faulty variant of ScaleSolution: the center frequency is scaled too.
ScaleSolutionAll(sol) ==
    [j \in DOMAIN sol |->
        IF j < 4 THEN sol[j] * gradientCalStrength ELSE sol[j] * loopCalCurrent]

\* getSolutionsToApply: solutions scaled to the values the hardware takes.
ScaleSolution(sol) ==
    [j \in DOMAIN sol |->
        IF j = 0 THEN sol[j]
        ELSE IF j < 4 THEN sol[j] * gradientCalStrength
        ELSE sol[j] * loopCalCurrent]
getSolutionsToApply(t) ==
    LET sols == Val(t.solutions)
    IN  [t EXCEPT !.solutionValuesToApply =
            Some([i \in DOMAIN sols |->
                    IF sols[i] # None THEN Some(ScaleSolution(Val(sols[i])))
                    ELSE None])]

\* A faulty variant of SolveMask: the slice behind is left out.
SolveMaskNoNext(finalMask, i, S) ==
    LET m0 == maskOneSlice(finalMask, i)
    IN  IF i > 0 THEN m0 \cup maskOneSlice(finalMask, i - 1) ELSE m0

\* The mask computeShimCurrents hands to the solver for slice i of S slices.
SolveMask(finalMask, i, S) ==
    LET m0 == maskOneSlice(finalMask, i)
        m1 == IF i > 0 THEN m0 \cup maskOneSlice(finalMask, i - 1) ELSE m0
        m2 == IF i < S - 1 THEN m1 \cup maskOneSlice(finalMask, i + 1) ELSE m1
    IN  m2

\* A faulty variant of ExpectedSlice: an unsolved slice keeps the background.
ExpectedSliceKept(background, basis, sol, i) ==
    [tag |-> background[i].tag, valid |-> background[i].valid]

\* The expected map computeShimCurrents builds from the solutions.
ExpectedSlice(background, basis, sol, i) ==
    IF sol # None
    THEN [tag |-> background[i].tag,
          valid |-> {p \in background[i].valid :
                        \A k \in 1..Len(basis) : p \in Val(basis[k])[i].valid}]
    ELSE NaNSlice

\* computeShimCurrents(): rank is the set of slices whose system the solver
\* finds of full rank, k the data it solves on.
\* The solver's verdicts followed: every system of full rank, or all but the
\* first slice's.
RankChoices(S) == {SliceIdx(S), SliceIdx(S) \ {0}}
computeShimCurrents(t, rank, k) ==
    IF \/ t.backgroundB0Map = None
       \/ t.rawBasisB0maps = None
    THEN Raise(t)
    ELSE IF \E j \in 1..Len(Val(t.rawBasisB0maps)) : Val(t.rawBasisB0maps)[j] = None
    THEN Raise(t)
    ELSE
    LET bg == Val(t.backgroundB0Map)
        S == NumSlicesOf(bg)
        basis == subtractBackground(bg, Val(t.rawBasisB0maps))
        t1 == computeMask([t EXCEPT !.basisB0maps = basis]).t
        fm == Val(t1.finalMask)
        masks == [i \in DOMAIN bg |-> SolveMask(fm, i, S)]
        sols == [i \in DOMAIN bg |-> solveCurrents(masks[i], i \in rank, k, i)]
        t2 == getSolutionsToApply([t1 EXCEPT !.solutions = Some(sols),
                                             !.solverMasks = Some(masks)])
        expected == [i \in DOMAIN bg |-> ExpectedSlice(bg, basis, sols[i], i)]
    IN  IF \E i \in DOMAIN bg : sols[i] # None
        THEN Ok([t2 EXCEPT !.expectedB0Map = Some(expected)], TRUE)
        ELSE Ok(t2, FALSE)

\* evaluateShimImages: per-slice statistics of background, expected and
\* shimmed map inside the final mask; an unset map keeps its old statistics.
SliceStat(map, finalMask, j) ==
    IF \E v \in maskOneSlice(finalMask, j) : v[2] \in map[j].valid
    THEN Some(map[j].tag)
    ELSE None
evaluateShimImages(t) ==
    LET maps == <<t.backgroundB0Map, t.expectedB0Map, t.shimmedB0Map>>
    IN  IF \A i \in 1..3 : maps[i] = None
        THEN Ok(t, TRUE)
        ELSE IF t.backgroundB0Map = None \/ t.finalMask = None
        THEN Raise(t)
        ELSE Ok([t EXCEPT !.shimStats =
                    [i \in 1..3 |->
                        IF maps[i] = None THEN t.shimStats[i]
                        ELSE Some([j \in DOMAIN Val(t.backgroundB0Map) |->
                                     SliceStat(Val(maps[i]), Val(t.finalMask), j)])]],
                TRUE)

\* ------------------------------------- commands and command helpers ------
deltaTE == 3500
\* A textual command queued to the scanner client, or to the shim client.
Cmd(op, args) == [op |-> op, args |-> args]
\* A step of a kickoff worker: one helper call of the worker's function.
Step(op, args) == [op |-> op, args |-> args]

\* What a helper does: the Tool attributes after it, the commands it queued
\* to the scanner client in order, whether it cleared prescanDone, and
\* whether an exception ended it (the commands queued before it stay queued).
Eff(t, cmds) == [t |-> t, cmds |-> cmds, raised |-> FALSE, clearPrescan |-> FALSE]
EffRaise(t, cmds) == [t |-> t, cmds |-> cmds, raised |-> TRUE, clearPrescan |-> FALSE]
\* e1 and then, unless e1 raised, the helper f applied to e1's attributes.
Then(e1, f(_)) ==
    IF e1.raised THEN e1
    ELSE LET e2 == f(e1.t)
         IN  [t |-> e2.t, cmds |-> e1.cmds \o e2.cmds, raised |-> e2.raised,
              clearPrescan |-> e1.clearPrescan \/ e2.clearPrescan]

\* setCenterFrequency(deltaCF)
setCenterFrequency(t, deltaCF) ==
    IF t.principleSols = None THEN EffRaise(t, <<>>)
    ELSE Eff(t, <<Cmd("SetCenterFrequency", <<Val(t.principleSols)[0] + deltaCF>>)>>)

\* setLinGradients(linGrad) with linGrad a list: offsets from the prescan values.
setLinGradients(t, linGrad) ==
    IF t.principleSols = None THEN EffRaise(t, <<>>)
    ELSE Eff(t, <<Cmd("SetShimValues",
                      [j \in 1..3 |-> linGrad[j] + Val(t.principleSols)[j]])>>)

\* setLinGradients(self.solutionValuesToApply[sliceIdx][1:4]): the argument
\* is a view of the stored array, and "linGrad += ..." adds into it in place.
setLinGradientsOfSlice(t, sliceIdx) ==
    IF t.principleSols = None THEN EffRaise(t, <<>>)
    ELSE LET old == Val(Val(t.solutionValuesToApply)[sliceIdx])
             new == [j \in DOMAIN old |->
                        IF j \in 1..3 THEN old[j] + Val(t.principleSols)[j] ELSE old[j]]
         IN  Eff([t EXCEPT !.solutionValuesToApply =
                     Some([Val(t.solutionValuesToApply) EXCEPT ![sliceIdx] = Some(new)])],
                 <<Cmd("SetShimValues", [j \in 1..3 |-> new[j]])>>)

\* sendSyncedLoopSolution(channel, sliceIdx, ZeroOthers, calibration);
\* sliceIdx is None or Some(slice).  Line 471 adds to the local "current",
\* which no earlier line assigns.
RECURSIVE sendSyncedLoopSolution(_, _, _, _, _)
sendSyncedLoopSolution(t, channel, sliceIdx, ZeroOthers, calibration) ==
    LET currentAssigned == FALSE
        indexable == /\ t.principleSols # None
                     /\ t.solutionValuesToApply # None
                     /\ sliceIdx # None
                     /\ Val(sliceIdx) \in DOMAIN Val(t.solutionValuesToApply)
                     /\ Val(t.solutionValuesToApply)[Val(sliceIdx)] # None
    IN  IF ~indexable \/ ~currentAssigned THEN EffRaise(t, <<>>)
        ELSE LET principleOffset == Val(t.principleSols)[channel]
                 solutionToApply ==
                    IF calibration THEN loopCalCurrent
                    ELSE Val(Val(t.solutionValuesToApply)[Val(sliceIdx)])[channel + 4]
                 own == Eff(t, <<Cmd("X", <<channel, solutionToApply + principleOffset>>)>>)
                 others == {i \in 0..(NumLoops - 1) : i # channel}
                 RECURSIVE rest(_, _)
                 rest(e, todo) ==
                    IF todo = {} THEN e
                    ELSE LET i == CHOOSE x \in todo : \A y \in todo : x <= y
                             f(tt) == sendSyncedLoopSolution(tt, i, sliceIdx, FALSE, calibration)
                         IN  rest(Then(e, f), todo \ {i})
             IN  IF ZeroOthers THEN rest(own, others) ELSE own

\* One pass of the loop of queueTwoFgreSequences (i = 0, 1).
fgreSequence(t, i) ==
    LET te == IF i = 0 THEN 1104 ELSE 1104 + deltaTE
        head == <<Cmd("SelectTask", <<>>), Cmd("ActivateTask", <<>>),
                  Cmd("SetCVs", <<1, 6000>>), Cmd("SetCVs", <<2, te>>),
                  Cmd("SetCVs", <<3, 13>>), Cmd("SetCVs", <<4, 64>>),
                  Cmd("PatientTable", <<>>)>>
    IN  IF ~t.autoPrescanDone
        THEN [t |-> [t EXCEPT !.autoPrescanDone = TRUE],
              cmds |-> head \o <<Cmd("Prescan", <<1>>), Cmd("GetPrescanValues", <<>>),
                                 Cmd("Scan", <<>>)>>,
              raised |-> FALSE, clearPrescan |-> TRUE]
        ELSE Eff(t, head \o <<Cmd("Prescan", <<0>>), Cmd("Scan", <<>>)>>)

\* queueFieldmapProtocol
queueFieldmapProtocol(t) == Eff(t, <<Cmd("LoadProtocol", <<3>>)>>)

\* setAllShimCurrents(sliceIdx) behind its requireShimConnection guard, as
\* the Tool runs it on the calling thread or inside a kickoff worker.
setAllShimCurrentsBody(t, sliceIdx) ==
    IF t.solutions = None THEN Eff(t, <<>>)
    ELSE IF Val(t.solutionValuesToApply)[sliceIdx] = None THEN EffRaise(t, <<>>)
    ELSE LET cf(tt) == setCenterFrequency(tt, Val(Val(tt.solutionValuesToApply)[sliceIdx])[0])
             lin(tt) == setLinGradientsOfSlice(tt, sliceIdx)
             RECURSIVE loops(_, _)
             loops(e, i) ==
                IF i >= NumLoops THEN e
                ELSE LET f(tt) == sendSyncedLoopSolution(tt, i, Some(sliceIdx), FALSE, FALSE)
                     IN  loops(Then(e, f), i + 1)
         IN  loops(Then(Then(Eff(t, <<>>), cf), lin), 0)

\* ------------------------------------------------------------- state -----
VARIABLES
    tool,       \* the Tool object's attributes
    exsi,       \* the scanner client: connection, command queue, signals, scanner
    shim,       \* the shim client: connection, command queue, coil currents
    numSlices,  \* slices of every volume of this exam (the prescribed protocol)
    measured,   \* the voxels this exam's acquisitions measure (the others are NaN)
    localScans, \* number of scans whose images are in localExamRootDir
    caller,     \* the calling thread: procedure and position in it
    workers,    \* the live kickoff threads, each with the steps it still runs
    calls,      \* operations started so far
    last,       \* the last operation started: its name, outcome and trigger emissions
    pre,        \* the Tool attributes when the last operation was started
    batch,      \* the commands the last kickoff worker queued, and how it ended
    stateFile,  \* the file at latestStateSavePath: its kind and, if a pickle, its dictionary
    gui         \* the ExsiGui window: its two log monitor threads and its closeEvent

vars == <<tool, exsi, shim, numSlices, measured, gui, stateFile, localScans, caller, workers, calls, last, pre, batch>>

\* The Tool after __init__ (line 122 stores resetPrincipleSols()'s return
\* value, None, in principleSols).
InitTool(debugging) ==
    [debugging |-> debugging,
     assetCalibrationDone |-> FALSE,
     autoPrescanDone |-> FALSE,
     backgroundB0Map |-> None,
     rawBasisB0maps |-> Some([k \in 1..NumBasis |-> None]),
     basisB0maps |-> [k \in 1..NumBasis |-> None],
     expectedB0Map |-> None,
     shimmedB0Map |-> None,
     solutions |-> None,
     solutionValuesToApply |-> None,
     principleSols |-> None,
     ROI |-> None,
     finalMask |-> None,
     shimStats |-> <<None, None, None>>,
     solverMasks |-> None]

InitExsi ==
    [connected |-> FALSE, queue |-> <<>>, images_ready |-> FALSE,
     no_failures |-> TRUE, ready |-> FALSE, prescanDone |-> FALSE,
     og |-> None, scanning |-> FALSE, scansDone |-> 0, failed |-> 0]

InitShim ==
    [connected |-> FALSE, queue |-> <<>>, currents |-> [c \in 0..(NumLoops - 1) |-> 0]]

IdleCaller ==
    [proc |-> "none", pc |-> "idle", n |-> 0, i |-> 0, ok |-> FALSE,
     sliceIdx |-> None, startIdx |-> 0, numindex |-> 0, idx |-> 0,
     obtainPrinciples |-> FALSE, failed |-> FALSE]

NoBatch == [id |-> 0, proc |-> "none", queued |-> <<>>, worker |-> "none"]

\* A LogMonitorThread after __init__ (running = True) and start(): the
\* thread is scheduled, run() has not begun.  unread: lines of the log the
\* thread has not read yet; written: lines written to the log so far.
LogMonitorThread == [pc |-> "started", running |-> TRUE, unread |-> 0, written |-> 0]

\* The ExsiGui window once built: both monitors started (ExsiGui.py lines
\* 174-176, 188-190), closeEvent not yet delivered.
GuiOpen ==
    [closeEvent |-> "open",
     exsiLogMonitorThread |-> LogMonitorThread,
     shimLogMonitorThread |-> LogMonitorThread]

\* The file at latestStateSavePath as a session finds it: left by saveState
\* in an earlier session of the same exam (see Snapshots).
EarlierFile == [kind |-> "earlier", attrs |-> <<>>]

\* The regions an acquisition may come back with: all of the volume, or all
\* but the first slice (too little signal there).
ValidChoices(S) == {Voxels(S), {v \in Voxels(S) : v[1] # 0}}

Init ==
    /\ \E d \in BOOLEAN : tool = InitTool(d)
    /\ exsi = InitExsi
    /\ shim = InitShim
    /\ numSlices = ExamSlices
    /\ measured = Voxels(ExamSlices)
    /\ localScans = 0
    /\ caller = IdleCaller
    /\ workers = <<>>
    /\ calls = 0
    /\ last = [proc |-> "none", outcome |-> "none", emits |-> 0]
    /\ pre = InitTool(FALSE)
    /\ batch = NoBatch
    /\ gui = GuiOpen
    /\ stateFile = EarlierFile

\* ------------------------------------------------ the two devices --------
\* The clients' reader threads raise connectedReady once the device answers
\* (followed here before the user's first operation).
ExsiConnects ==
    /\ ~exsi.connected
    /\ calls = 0
    /\ exsi' = [exsi EXCEPT !.connected = TRUE]
    /\ UNCHANGED <<tool, shim, numSlices, measured, gui, stateFile, localScans, caller, workers, calls, last, pre, batch>>

ShimConnects ==
    /\ ~shim.connected
    /\ calls = 0
    /\ shim' = [shim EXCEPT !.connected = TRUE]
    /\ UNCHANGED <<tool, exsi, numSlices, measured, gui, stateFile, localScans, caller, workers, calls, last, pre, batch>>

\* The values the scanner's auto prescan lands on (center frequency, gradients).
PrescanValues == [j \in 0..3 |-> 7 + j]

\* The scanner client's writer transmits the queue in order; the scanner
\* acts on each command.  One step transmits the commands up to, and with,
\* the next Scan or coil command.  A Scan runs until it completes or fails;
\* nothing else is transmitted while it runs.  "X channel amplitude" drives
\* the shim channel through the shim client (shimSetCurrentManual, board 0).
Acts(c) == c.op \in {"Scan", "X"}
RECURSIVE Transmit(_, _)
Transmit(e, q) ==
    IF q = <<>> THEN [e EXCEPT !.queue = <<>>]
    ELSE LET c == Head(q)
             e1 == CASE c.op = "Scan" -> [e EXCEPT !.scanning = TRUE]
                     [] c.op = "Prescan" /\ c.args[1] = 1 -> [e EXCEPT !.prescanDone = TRUE]
                     [] c.op = "GetPrescanValues" -> [e EXCEPT !.og = Some(PrescanValues)]
                     [] OTHER -> e
         IN  IF Acts(c) THEN [e1 EXCEPT !.queue = Tail(q)] ELSE Transmit(e1, Tail(q))
RECURSIVE FirstActing(_)
FirstActing(q) == IF q = <<>> \/ Acts(Head(q)) THEN q ELSE FirstActing(Tail(q))
ExsiTransmit ==
    /\ exsi.connected
    /\ exsi.queue # <<>>
    /\ ~exsi.scanning
    /\ exsi' = Transmit([exsi EXCEPT !.ready = TRUE], exsi.queue)
    /\ LET q == FirstActing(exsi.queue)
       IN  shim' = IF q # <<>> /\ Head(q).op = "X"
                   THEN [shim EXCEPT !.queue = Append(shim.queue,
                                        Cmd("X", <<0, Head(q).args[1], Head(q).args[2]>>))]
                   ELSE shim
    /\ UNCHANGED <<tool, numSlices, measured, gui, stateFile, localScans, caller, workers, calls, last, pre, batch>>

ScanCompletes ==
    /\ exsi.scanning
    /\ exsi' = [exsi EXCEPT !.scanning = FALSE, !.scansDone = @ + 1,
                            !.images_ready = TRUE, !.ready = TRUE]
    /\ UNCHANGED <<tool, shim, numSlices, measured, gui, stateFile, localScans, caller, workers, calls, last, pre, batch>>

ScanFails ==
    /\ exsi.scanning
    /\ exsi.failed < MaxFailures
    /\ exsi' = [exsi EXCEPT !.scanning = FALSE, !.no_failures = FALSE, !.ready = TRUE,
                            !.failed = @ + 1]
    /\ UNCHANGED <<tool, shim, numSlices, measured, gui, stateFile, localScans, caller, workers, calls, last, pre, batch>>

\* The coil driver executes the head of the shim client's queue.
ShimDevice ==
    /\ shim.connected
    /\ shim.queue # <<>>
    /\ LET c == Head(shim.queue)
       IN  shim' = [shim EXCEPT
                      !.queue = Tail(shim.queue),
                      !.currents = IF c.op = "Z" THEN [x \in DOMAIN @ |-> 0]
                                   ELSE IF c.op = "X" THEN [@ EXCEPT ![c.args[2]] = c.args[3]]
                                   ELSE @]
    /\ UNCHANGED <<tool, exsi, numSlices, measured, gui, stateFile, localScans, caller, workers, calls, last, pre, batch>>

\* ------------------------------------------------------- guards ----------
\* The decorators each macro-procedure carries, outermost first.
Guards(proc) ==
    CASE proc = "doCalibrationScan" -> <<"exsi">>
      [] proc = "doFgreScan" -> <<"exsi", "asset">>
      [] proc = "setAllShimCurrents" -> <<"shim">>
      [] proc \in {"doFieldmapScan", "doBasisCalibrationScans",
                   "doEvalAppliedShims", "doAllShimmedScans"} -> <<"exsi", "shim", "asset">>
      [] OTHER -> <<>>

\* A faulty variant of requireExsiConnection: the connection is not tested.
requireExsiConnectionUntested == TRUE

\* requireExsiConnection / requireShimConnection / requireAssetCalibration
requireExsiConnection == exsi.connected \/ tool.debugging
requireShimConnection == shim.connected \/ tool.debugging
requireAssetCalibration == tool.assetCalibrationDone \/ tool.debugging
GuardPasses(g) ==
    CASE g = "exsi" -> requireExsiConnection
      [] g = "shim" -> requireShimConnection
      [] g = "asset" -> requireAssetCalibration
GuardsPass(proc) == \A k \in 1..Len(Guards(proc)) : GuardPasses(Guards(proc)[k])

\* The time-outs (90 s, 120 s) are longer than a scan lasts: a wait runs out
\* only once no scan is running and none can start any more.
ScanPending ==
    \/ exsi.scanning
    \/ exsi.connected /\ exsi.queue # <<>>
    \/ \E w \in 1..Len(workers) : Head(workers[w].prog).op # "updateVals"

\* The user starts an operation when the last one has returned, no scan is
\* running, and the coil driver and the worker threads have gone quiet.
Quiet == ~exsi.scanning /\ (shim.connected => shim.queue = <<>>) /\ workers = <<>>

\* A macro-procedure is started by the idle caller; an unmet guard returns.
Started(proc) ==
    /\ caller.pc = "idle"
    /\ Quiet
    /\ calls < MaxCalls
    /\ calls' = calls + 1
    /\ pre' = tool
    /\ UNCHANGED <<numSlices, measured, gui, stateFile>>
Returned(proc, emits) == [proc |-> proc, outcome |-> "returned", emits |-> emits]
Running(proc) == [proc |-> proc, outcome |-> "running", emits |-> 0]
Raised(proc, emits) == [proc |-> proc, outcome |-> "raised", emits |-> emits]
GuardReturns(proc) ==
    /\ ~GuardsPass(proc)
    /\ last' = [proc |-> proc, outcome |-> "guard", emits |-> 0]
    /\ UNCHANGED <<tool, exsi, shim, localScans, caller, workers, batch>>

\* The caller ends its procedure and is idle again.
Finish(emits) ==
    /\ caller' = IdleCaller
    /\ last' = [last EXCEPT !.outcome = "returned", !.emits = @ + emits]
\* The same after the branch that logs "Scans didn't complete" (or, in the
\* single-scan procedures, after a wait that ran out).
Fail(emits) ==
    /\ caller' = IdleCaller
    /\ last' = [last EXCEPT !.outcome = "failed", !.emits = @ + emits]

\* ------------------------------------ doCalibrationScan / doFgreScan -----
\* transferScanData: the images of every scan done so far arrive locally.
SingleScan(protocol) ==
    <<Cmd("LoadProtocol", <<protocol>>), Cmd("SelectTask", <<>>), Cmd("ActivateTask", <<>>),
      Cmd("PatientTable", <<>>), Cmd("Scan", <<>>)>>

\* A faulty variant of doCalibrationScan: the scan is queued again although
\* the calibration is done.
doCalibrationScanAgain ==
    /\ Started("doCalibrationScan")
    /\ \/ GuardReturns("doCalibrationScan")
       \/ /\ GuardsPass("doCalibrationScan")
          /\ exsi' = [exsi EXCEPT !.queue = @ \o SingleScan(4)]
          /\ caller' = [IdleCaller EXCEPT !.proc = "doCalibrationScan", !.pc = "wait120"]
          /\ last' = Running("doCalibrationScan")
          /\ UNCHANGED <<tool, shim, localScans, workers, batch>>

doCalibrationScan ==
    /\ Started("doCalibrationScan")
    /\ \/ GuardReturns("doCalibrationScan")
       \/ /\ GuardsPass("doCalibrationScan")
          /\ IF ~tool.assetCalibrationDone
             THEN /\ exsi' = [exsi EXCEPT !.queue = @ \o SingleScan(4)]
                  /\ caller' = [IdleCaller EXCEPT !.proc = "doCalibrationScan", !.pc = "wait120"]
                  /\ last' = Running("doCalibrationScan")
             ELSE /\ last' = Returned("doCalibrationScan", 1)
                  /\ UNCHANGED <<exsi, caller>>
          /\ UNCHANGED <<tool, shim, localScans, workers, batch>>

doFgreScan ==
    /\ Started("doFgreScan")
    /\ \/ GuardReturns("doFgreScan")
       \/ /\ GuardsPass("doFgreScan")
          /\ exsi' = [exsi EXCEPT !.queue = @ \o SingleScan(5)]
          /\ caller' = [IdleCaller EXCEPT !.proc = "doFgreScan", !.pc = "wait120"]
          /\ last' = Running("doFgreScan")
          /\ UNCHANGED <<tool, shim, localScans, workers, batch>>

\* images_ready_event.wait(timeout=120) of both procedures: the wait returns
\* true as soon as the signal is raised, and false when the time runs out.
Wait120 ==
    /\ caller.pc = "wait120"
    /\ exsi.images_ready \/ ~ScanPending
    /\ IF exsi.images_ready
       THEN /\ tool' = IF caller.proc = "doCalibrationScan"
                       THEN [tool EXCEPT !.assetCalibrationDone = TRUE]
                       ELSE tool
            /\ caller' = [caller EXCEPT !.pc = "clear120"]
            /\ UNCHANGED last
       ELSE /\ Fail(1)
            /\ UNCHANGED tool
    /\ UNCHANGED <<exsi, shim, numSlices, measured, gui, stateFile, localScans, workers, calls, pre, batch>>

\* ... then images_ready_event.clear(), transferScanData(), getLatestData().
Clear120 ==
    /\ caller.pc = "clear120"
    /\ exsi' = [exsi EXCEPT !.images_ready = FALSE]
    /\ localScans' = exsi.scansDone
    /\ Finish(1)
    /\ UNCHANGED <<tool, shim, numSlices, measured, gui, stateFile, workers, calls, pre, batch>>

\* --------------------------------------------- kickoff workers ----------
\* The concatenation f[lo] \o ... \o f[hi].
RECURSIVE Flat(_, _, _)
Flat(f, lo, hi) == IF lo > hi THEN <<>> ELSE f[lo] \o Flat(f, lo + 1, hi)

NoArgs == <<>>
TwoFgre == <<Step("fgreSequence", <<0>>), Step("fgreSequence", <<1>>)>>
\* queueB0MapPairScan: load the protocol, then queueTwoFgreSequences.
B0MapPairScan == <<Step("queueFieldmapProtocol", NoArgs)>> \o TwoFgre

\* queueAll of doBasisCalibrationScans.
BasisProgram ==
    LET grad == [i \in 0..2 |->
                    <<Step("queueFieldmapProtocol", NoArgs),
                      Step("setLinGradients",
                           [j \in 1..3 |-> IF j = i + 1 THEN gradientCalStrength ELSE 0])>>
                    \o TwoFgre]
        loop == [i \in 0..(NumLoops - 1) |->
                    <<Step("queueFieldmapProtocol", NoArgs),
                      Step("sendSyncedLoopSolution", <<i, -1, 1, 1>>),
                      Step("setLinGradients", <<0, 0, 0>>)>>
                    \o TwoFgre]
    IN  Flat(grad, 0, 2) \o Flat(loop, 0, NumLoops - 1)

\* queueAll of doEvalAppliedShims(sliceIdx).
EvalProgram(sliceIdx) ==
    LET grad == [i \in 0..2 |->
                    <<Step("queueFieldmapProtocol", NoArgs),
                      Step("setLinGradientsApply", <<sliceIdx, i>>)>>
                    \o TwoFgre]
        loop == [i \in 0..(NumLoops - 1) |->
                    <<Step("queueFieldmapProtocol", NoArgs),
                      Step("sendSyncedLoopSolution", <<i, sliceIdx, 1, 0>>),
                      Step("setLinGradients", <<0, 0, 0>>)>>
                    \o TwoFgre]
    IN  <<Step("setCenterFrequencyOfSlice", <<sliceIdx>>),
          Step("setLinGradients", <<0, 0, 0>>)>>
        \o B0MapPairScan
        \o <<Step("sendWaitForImagesCollected", NoArgs),
             Step("setCenterFrequency", <<0>>)>>
        \o Flat(grad, 0, 2) \o Flat(loop, 0, NumLoops - 1)

\* queueAll of doAllShimmedScans.
AllShimmedProgram(startIdx, numindex) ==
    LET one == [i \in startIdx..(startIdx + numindex - 1) |->
                    (IF i > startIdx THEN <<Step("sendWaitForImagesCollected", NoArgs)>>
                     ELSE <<>>)
                    \o <<Step("setAllShimCurrents", <<i>>)>>
                    \o B0MapPairScan]
    IN  Flat(one, startIdx, startIdx + numindex - 1)

\* compute_b0maps(n, localExamRootDir): the n latest echo pairs of the local
\* directory as B0 maps; valid is the region the acquisition measured.
compute_b0maps(n, S, scans, valid) ==
    [k \in 1..n |-> AcquiredMap(S, scans - 2 * (n - k) - 1, valid)]

\* A faulty variant of computeShimmedB0Map: every slice is written, whatever
\* idx is.
computeShimmedB0MapWhole(t, idx, S, scans, valid) ==
    [t EXCEPT !.shimmedB0Map = Some(compute_b0maps(1, S, scans, valid)[1])]

\* computeShimmedB0Map(idx): slice idx of the latest map into the shimmed
\* map (idx None: numpy's newaxis, every slice).
computeShimmedB0Map(t, idx, S, scans, valid) ==
    LET b0 == compute_b0maps(1, S, scans, valid)[1]
        old == IF t.shimmedB0Map = None THEN [s \in SliceIdx(S) |-> NaNSlice]
               ELSE Val(t.shimmedB0Map)
    IN  [t EXCEPT !.shimmedB0Map =
            Some([s \in SliceIdx(S) |->
                    IF idx = None \/ idx = Some(s) THEN b0[s] ELSE old[s]])]

\* One step of a worker on the attributes t: what it queues and changes.
ExecStep(step, t) ==
    CASE step.op = "queueFieldmapProtocol" -> queueFieldmapProtocol(t)
      [] step.op = "fgreSequence" -> fgreSequence(t, step.args[1])
      [] step.op = "setLinGradients" -> setLinGradients(t, step.args)
      [] step.op = "setLinGradientsApply" ->
            IF t.solutionValuesToApply = None THEN EffRaise(t, <<>>)
            ELSE IF Val(t.solutionValuesToApply)[step.args[1]] = None THEN EffRaise(t, <<>>)
            ELSE LET apply == Val(Val(t.solutionValuesToApply)[step.args[1]])
                     i == step.args[2]
                 IN  setLinGradients(t, [j \in 1..3 |-> IF j = i + 1 THEN apply[1 + i] ELSE 0])
      [] step.op = "setCenterFrequency" -> setCenterFrequency(t, step.args[1])
      [] step.op = "setCenterFrequencyOfSlice" ->
            IF t.solutionValuesToApply = None THEN EffRaise(t, <<>>)
            ELSE IF Val(t.solutionValuesToApply)[step.args[1]] = None THEN EffRaise(t, <<>>)
            ELSE setCenterFrequency(t, Val(Val(t.solutionValuesToApply)[step.args[1]])[0])
      [] step.op = "sendSyncedLoopSolution" ->
            sendSyncedLoopSolution(t, step.args[1],
                IF step.args[2] < 0 THEN None ELSE Some(step.args[2]),
                step.args[3] = 1, step.args[4] = 1)
      [] step.op = "sendWaitForImagesCollected" ->
            Eff(t, <<Cmd("WaitForImagesCollected", <<>>)>>)
      [] step.op = "setAllShimCurrents" ->
            IF requireShimConnection THEN setAllShimCurrentsBody(t, step.args[1])
            ELSE Eff(t, <<>>)

\* A kickoff thread: fire and forget.
Kickoff(id, prog) == Append(workers, [id |-> id, prog |-> prog])
RemoveAt(seq, w) == [k \in 1..(Len(seq) - 1) |-> IF k < w THEN seq[k] ELSE seq[k + 1]]

\* The helper calls of a queueAll function in order, up to the first that
\* raises.
RECURSIVE RunProg(_, _)
RunProg(prog, e) ==
    IF prog = <<>> \/ e.raised THEN e
    ELSE LET f(tt) == ExecStep(Head(prog), tt)
         IN  RunProg(Tail(prog), Then(e, f))

\* A queueAll worker runs its function: it only queues commands and never
\* blocks; an exception ends the thread where it is raised.
WorkerStep ==
    \E w \in 1..Len(workers) :
        LET me == workers[w]
        IN  /\ Head(me.prog).op # "updateVals"
            /\ LET e == RunProg(me.prog, Eff(tool, <<>>))
               IN  /\ tool' = e.t
                   /\ exsi' = [exsi EXCEPT !.queue = @ \o e.cmds,
                                           !.prescanDone = IF e.clearPrescan THEN FALSE ELSE @]
                   /\ workers' = RemoveAt(workers, w)
                   /\ batch' = IF me.id # batch.id THEN batch
                               ELSE [batch EXCEPT
                                       !.queued = @ \o e.cmds,
                                       !.worker = IF e.raised THEN "raised" ELSE "done"]
            /\ UNCHANGED <<shim, numSlices, measured, gui, stateFile, localScans, caller, calls, last, pre>>

\* Line 372 inside updateVals: b0maps[0][:, idx, :] is read and then stored
\* at [:, idx, :]; idx is the loop variable of doAllShimmedScans, looked up
\* at each of the two uses (src, then dst).
recordShimmedSlice(t, src, dst, S, scans, valid) ==
    LET b0 == compute_b0maps(1, S, scans, valid)[1]
        old == IF t.shimmedB0Map = None THEN [s \in SliceIdx(S) |-> NaNSlice]
               ELSE Val(t.shimmedB0Map)
    IN  [t EXCEPT !.shimmedB0Map =
            Some([s \in SliceIdx(S) |-> IF s = dst THEN b0[src] ELSE old[s]])]

\* The updateVals worker of doAllShimmedScans: computeShimmedB0Map(idx),
\* evaluateShimImages(), and the trigger.  The thread was started for slice
\* step.args[1] with step.args[2] scans in the local directory; it shares the
\* loop variable with the calling thread, which moves on without waiting
\* for it.  Either it has finished before the loop moved on, or it reads the
\* loop variable as it is now, after the latest pair read then or now.
UpdateValsStep ==
    \E w \in 1..Len(workers) :
        LET me == workers[w]
            step == Head(me.prog)
            now == IF Len(step.args) = 3 THEN step.args[3] ELSE caller.idx
        IN  /\ step.op = "updateVals"
            /\ \E src \in {step.args[1], now}, dst \in {step.args[1], now},
                  scans \in {step.args[2], localScans} :
                  /\ src <= dst
                  /\ dst = step.args[1] => scans = step.args[2]
                  /\ LET o == evaluateShimImages(
                                recordShimmedSlice(tool, src, dst, numSlices, scans, measured))
                     IN  /\ tool' = o.t
                         /\ last' = IF me.id = calls /\ ~o.raised
                                    THEN [last EXCEPT !.emits = @ + 1] ELSE last
            /\ workers' = RemoveAt(workers, w)
            /\ UNCHANGED <<exsi, shim, numSlices, measured, gui, stateFile, localScans, caller, calls, pre, batch>>

\* ------------------------------------------- countScansCompleted ---------
\* The caller enters countScansCompleted(n).
Count(c, n) == [c EXCEPT !.pc = "wait", !.n = n, !.i = 0]

\* What the calling thread does between the kickoff and the count: shimZero()
\* (lines 720, 796; the basis procedure also unsets the raw-basis buffer,
\* line 721), then images_ready_event.clear() (lines 673, 722, 797).
ShimZero == [shim EXCEPT !.queue = Append(@, Cmd("Z", <<>>))]
ClearFirst ==
    /\ caller.pc = "clearFirst"
    /\ shim' = IF caller.proc = "doFieldmapScan" THEN shim ELSE ShimZero
    /\ tool' = IF caller.proc = "doBasisCalibrationScans"
               THEN [tool EXCEPT !.rawBasisB0maps = None]
               ELSE tool
    /\ exsi' = [exsi EXCEPT !.images_ready = FALSE]
    /\ caller' = [caller EXCEPT !.pc = "wait"]
    /\ UNCHANGED <<numSlices, measured, gui, stateFile, localScans, workers, calls, last, pre, batch>>

\* One pass of the loop up to its wait: a failure flagged since the last pass
\* ends the count (and re-arms the signal); else
\* images_ready_event.wait(timeout=90) returns true once the signal is
\* raised, false when 90 seconds pass without it.
CountWait ==
    /\ caller.pc = "wait"
    /\ ~exsi.no_failures \/ exsi.images_ready \/ ~ScanPending
    /\ IF ~exsi.no_failures
       THEN /\ exsi' = [exsi EXCEPT !.no_failures = TRUE]
            /\ caller' = [caller EXCEPT !.pc = "after", !.ok = FALSE]
       ELSE /\ caller' = IF exsi.images_ready THEN [caller EXCEPT !.pc = "clear"]
                         ELSE [caller EXCEPT !.pc = "after", !.ok = FALSE]
            /\ UNCHANGED exsi
    /\ UNCHANGED <<tool, shim, numSlices, measured, gui, stateFile, localScans, workers, calls, last, pre, batch>>

\* images_ready_event.clear(); after the n-th scan transferScanData() and
\* return True.
CountClear ==
    /\ caller.pc = "clear"
    /\ exsi' = [exsi EXCEPT !.images_ready = FALSE]
    /\ IF caller.i + 1 < caller.n
       THEN /\ caller' = [caller EXCEPT !.pc = "wait", !.i = @ + 1]
            /\ UNCHANGED localScans
       ELSE /\ caller' = [caller EXCEPT !.pc = "after", !.i = @ + 1, !.ok = TRUE]
            /\ localScans' = exsi.scansDone
    /\ UNCHANGED <<tool, shim, numSlices, measured, gui, stateFile, workers, calls, last, pre, batch>>

\* The else branch of every scanning procedure (lines 690-693, 733-736,
\* 802-805, 862-865): log, clear images_ready and ready.
ClearSignals == [exsi EXCEPT !.images_ready = FALSE, !.ready = FALSE]

\* The kickoff of a batch: its worker, and the record of what it queues.
NewBatch(proc) == [id |-> calls + 1, proc |-> proc, queued |-> <<>>, worker |-> "running"]

\* ----------------------------------------------- doFieldmapScan ----------
doFieldmapScan ==
    /\ Started("doFieldmapScan")
    /\ \/ GuardReturns("doFieldmapScan")
       \/ /\ GuardsPass("doFieldmapScan")
          /\ \E sliceIdx \in {None} \cup {Some(x) : x \in SliceIdx(numSlices)} :
                /\ tool.backgroundB0Map = None => sliceIdx = None
                /\ caller' = [IdleCaller EXCEPT !.proc = "doFieldmapScan", !.pc = "clearFirst",
                                             !.n = 2, !.sliceIdx = sliceIdx,
                                             !.obtainPrinciples = ~tool.autoPrescanDone]
          /\ IF ~tool.autoPrescanDone
             THEN /\ tool' = resetShimSols(resetPrincipleSols(tool, exsi.og))
                  /\ shim' = ShimZero
             ELSE UNCHANGED <<tool, shim>>
          /\ workers' = Kickoff(calls + 1, B0MapPairScan)
          /\ batch' = NewBatch("doFieldmapScan")
          /\ last' = Running("doFieldmapScan")
          /\ UNCHANGED <<exsi, localScans>>

\* computeBackgroundB0map: the latest pair becomes the background.
computeBackgroundB0map(t, S, scans, valid) ==
    computeMask([t EXCEPT !.backgroundB0Map = Some(compute_b0maps(1, S, scans, valid)[1])])

\* After countScansCompleted(2): store the map, or clear the signals.
AfterFieldmapScan ==
    /\ caller.pc = "after" /\ caller.proc = "doFieldmapScan"
    /\ IF caller.ok
       THEN   LET t1 == IF tool.backgroundB0Map # None
                        THEN computeShimmedB0Map(tool, caller.sliceIdx, numSlices,
                                                 exsi.scansDone, measured)
                        ELSE computeBackgroundB0map(tool, numSlices, exsi.scansDone,
                                                    measured).t
                  t2 == IF caller.obtainPrinciples THEN resetPrincipleSols(t1, exsi.og) ELSE t1
                  o == evaluateShimImages(t2)
              IN  /\ tool' = o.t
                  /\ localScans' = exsi.scansDone
                  /\ IF o.raised
                     THEN /\ caller' = IdleCaller
                          /\ last' = [last EXCEPT !.outcome = "raised"]
                     ELSE Finish(1)
                  /\ UNCHANGED exsi
       ELSE /\ exsi' = ClearSignals
            /\ Fail(1)
            /\ UNCHANGED <<tool, localScans>>
    /\ UNCHANGED <<shim, numSlices, measured, gui, stateFile, workers, calls, pre, batch>>

\* ------------------------------------------ doBasisCalibrationScans ------
doBasisCalibrationScans ==
    /\ Started("doBasisCalibrationScans")
    /\ \/ GuardReturns("doBasisCalibrationScans")
       \/ /\ GuardsPass("doBasisCalibrationScans")
          /\ caller' = [IdleCaller EXCEPT !.proc = "doBasisCalibrationScans", !.pc = "clearFirst",
                                          !.n = (NumLoops + 3) * 2]
          /\ workers' = Kickoff(calls + 1, BasisProgram)
          /\ batch' = NewBatch("doBasisCalibrationScans")
          /\ last' = Running("doBasisCalibrationScans")
          /\ UNCHANGED <<tool, exsi, shim, localScans>>

\* computeBasisB0maps
computeBasisB0maps(t, S, scans, valid) ==
    [t EXCEPT !.rawBasisB0maps =
        Some([k \in 1..NumBasis |-> Some(compute_b0maps(NumBasis, S, scans, valid)[k])])]

\* The success branch of doBasisCalibrationScans (lines 725-732).
BasisSuccess(t, S, scans, valid, rank, k) ==
    LET t1 == computeBasisB0maps(t, S, scans, valid)
        o == computeShimCurrents([t1 EXCEPT !.expectedB0Map = None], rank, k)
    IN  IF o.raised THEN o ELSE evaluateShimImages(o.t)

\* A faulty variant of AfterBasisCalibrationScans: the maps are computed
\* whatever the count returned.
AfterBasisCalibrationScansAnyway ==
    /\ caller.pc = "after" /\ caller.proc = "doBasisCalibrationScans"
    /\ \E rank \in RankChoices(numSlices) :
          LET o == BasisSuccess(tool, numSlices, localScans, measured, rank, 1)
          IN  /\ tool' = o.t
              /\ IF o.raised
                 THEN /\ caller' = IdleCaller
                      /\ last' = [last EXCEPT !.outcome = "raised"]
                 ELSE IF caller.ok THEN Finish(1) ELSE Fail(1)
    /\ UNCHANGED <<exsi, shim, numSlices, measured, gui, stateFile, localScans, workers, calls, pre, batch>>

AfterBasisCalibrationScans ==
    /\ caller.pc = "after" /\ caller.proc = "doBasisCalibrationScans"
    /\ IF caller.ok
       THEN \E rank \in RankChoices(numSlices) :
              LET o == BasisSuccess(tool, numSlices, localScans, measured, rank, 1)
              IN  /\ tool' = o.t
                  /\ IF o.raised
                     THEN /\ caller' = IdleCaller
                          /\ last' = [last EXCEPT !.outcome = "raised"]
                     ELSE Finish(1)
                  /\ UNCHANGED exsi
       ELSE /\ exsi' = ClearSignals
            /\ Fail(1)
            /\ UNCHANGED tool
    /\ UNCHANGED <<shim, numSlices, measured, gui, stateFile, localScans, workers, calls, pre, batch>>

\* --------------------------------------------- doEvalAppliedShims ------
\* solutions[sliceIdx] is read before anything else: unset solutions raise,
\* a null solution logs and returns (without the trigger).
doEvalAppliedShims ==
    /\ Started("doEvalAppliedShims")
    /\ \/ GuardReturns("doEvalAppliedShims")
       \/ /\ GuardsPass("doEvalAppliedShims")
          /\ \E sliceIdx \in SliceIdx(numSlices) :
                IF tool.solutions = None
                THEN /\ last' = Raised("doEvalAppliedShims", 0)
                     /\ UNCHANGED <<caller, workers, batch>>
                ELSE IF Val(tool.solutions)[sliceIdx] = None
                THEN /\ last' = Returned("doEvalAppliedShims", 0)
                     /\ UNCHANGED <<caller, workers, batch>>
                ELSE /\ caller' = [IdleCaller EXCEPT !.proc = "doEvalAppliedShims",
                                                     !.pc = "clearFirst",
                                                     !.n = (NumLoops + 4) * 2,
                                                     !.sliceIdx = Some(sliceIdx)]
                     /\ workers' = Kickoff(calls + 1, EvalProgram(sliceIdx))
                     /\ batch' = NewBatch("doEvalAppliedShims")
                     /\ last' = Running("doEvalAppliedShims")
          /\ UNCHANGED <<tool, exsi, shim, localScans>>

\* evaluateAppliedShims writes files and figures only.
AfterEvalAppliedShims ==
    /\ caller.pc = "after" /\ caller.proc = "doEvalAppliedShims"
    /\ exsi' = IF caller.ok THEN exsi ELSE ClearSignals
    /\ IF caller.ok THEN Finish(1) ELSE Fail(1)
    /\ UNCHANGED <<tool, shim, numSlices, measured, gui, stateFile, localScans, workers, calls, pre, batch>>

\* ---------------------------------------------- doAllShimmedScans -------
\* Lines 820-826: the slices whose expected-map statistics are set.
StatSlices(t) == {i \in DOMAIN Val(t.backgroundB0Map) : Val(t.shimStats[2])[i] # None}
startIdxOf(t) == CHOOSE i \in StatSlices(t) : \A j \in StatSlices(t) : i <= j

doAllShimmedScans ==
    /\ Started("doAllShimmedScans")
    /\ \/ GuardReturns("doAllShimmedScans")
       \/ /\ GuardsPass("doAllShimmedScans")
          /\ IF tool.expectedB0Map # None
             THEN /\ last' = Returned("doAllShimmedScans", 1)
                  /\ UNCHANGED <<exsi, caller, workers, batch>>
             ELSE IF tool.backgroundB0Map = None \/ tool.shimStats[2] = None
             THEN /\ last' = Raised("doAllShimmedScans", 0)
                  /\ UNCHANGED <<exsi, caller, workers, batch>>
             ELSE IF StatSlices(tool) = {}
             THEN /\ last' = Returned("doAllShimmedScans", 1)
                  /\ UNCHANGED <<exsi, caller, workers, batch>>
             ELSE LET startIdx == startIdxOf(tool)
                      numindex == Cardinality(StatSlices(tool))
                  IN  /\ exsi' = [exsi EXCEPT !.images_ready = FALSE]
                      /\ workers' = Kickoff(calls + 1, AllShimmedProgram(startIdx, numindex))
                      /\ batch' = NewBatch("doAllShimmedScans")
                      /\ caller' = [IdleCaller EXCEPT !.proc = "doAllShimmedScans",
                                                      !.pc = "wait", !.n = 2,
                                                      !.startIdx = startIdx,
                                                      !.numindex = numindex,
                                                      !.idx = startIdx]
                      /\ last' = Running("doAllShimmedScans")
          /\ UNCHANGED <<tool, shim, localScans>>

\* Once the loop has ended its variable keeps its last value for the
\* updateVals threads that have not run yet.
FreezeIdx(ws, idx) ==
    [w \in DOMAIN ws |->
        IF Head(ws[w].prog).op = "updateVals" /\ Len(Head(ws[w].prog).args) = 2
        THEN [ws[w] EXCEPT !.prog = <<Step("updateVals", Append(Head(ws[w].prog).args, idx))>>]
        ELSE ws[w]]

\* Lines 853-865: after the count of one slice, start updateVals or clear
\* the signals; then the next slice, if any.
AfterShimmedSlice ==
    /\ caller.pc = "after" /\ caller.proc = "doAllShimmedScans"
    /\ LET ws == IF caller.ok
                 THEN Kickoff(calls, <<Step("updateVals", <<caller.idx, localScans>>)>>)
                 ELSE workers
       IN  /\ exsi' = IF caller.ok THEN exsi ELSE ClearSignals
           /\ IF caller.idx + 1 < caller.startIdx + caller.numindex
              THEN /\ caller' = [Count(caller, 2) EXCEPT !.idx = @ + 1,
                                                          !.failed = @ \/ ~caller.ok]
                   /\ workers' = ws
                   /\ UNCHANGED last
              ELSE /\ workers' = FreezeIdx(ws, caller.idx)
                   /\ IF caller.ok /\ ~caller.failed THEN Finish(0) ELSE Fail(0)
    /\ UNCHANGED <<tool, shim, numSlices, measured, gui, stateFile, localScans, calls, pre, batch>>

\* ------------------------------------------------ setAllShimCurrents ----
setAllShimCurrents ==
    /\ Started("setAllShimCurrents")
    /\ \/ GuardReturns("setAllShimCurrents")
       \/ /\ GuardsPass("setAllShimCurrents")
          /\ \E sliceIdx \in SliceIdx(numSlices) :
                LET e == setAllShimCurrentsBody(tool, sliceIdx)
                IN  /\ tool' = e.t
                    /\ exsi' = [exsi EXCEPT !.queue = @ \o e.cmds]
                    /\ last' = IF e.raised THEN Raised("setAllShimCurrents", 0)
                               ELSE Returned("setAllShimCurrents", 1)
          /\ UNCHANGED <<shim, localScans, caller, workers, batch>>

\* ------------------------ recomputeCurrentsAndView, overwriteBackground --
recomputeCurrentsAndViewBody(t, rank, k) ==
    LET o1 == computeMask(t)
    IN  IF o1.raised THEN o1
        ELSE IF t.backgroundB0Map # None /\ t.basisB0maps[1] # None
        THEN LET o2 == computeShimCurrents([o1.t EXCEPT !.expectedB0Map = None], rank, k)
             IN  IF o2.raised THEN o2 ELSE evaluateShimImages(o2.t)
        ELSE evaluateShimImages(o1.t)

recomputeCurrentsAndView ==
    /\ Started("recomputeCurrentsAndView")
    /\ \E rank \in RankChoices(numSlices) :
          LET o == recomputeCurrentsAndViewBody(tool, rank, 1)
          IN  /\ tool' = o.t
              /\ last' = IF o.raised THEN Raised("recomputeCurrentsAndView", 0)
                         ELSE Returned("recomputeCurrentsAndView", 1)
    /\ UNCHANGED <<exsi, shim, localScans, caller, workers, batch>>

\* A faulty variant of overwriteBackgroundBody: resetShimSols is left out.
overwriteBackgroundBodyKeeping(t, sliceIdx, rank, k) ==
    LET fold == t.solutionValuesToApply # None /\ sliceIdx # None
    IN  IF fold /\ (t.principleSols = None
                    \/ Val(t.solutionValuesToApply)[Val(sliceIdx)] = None)
        THEN Raise(t)
        ELSE LET t1 == IF fold
                       THEN [t EXCEPT !.principleSols =
                               Some([j \in VecIdx |->
                                       Val(t.principleSols)[j]
                                       + Val(Val(t.solutionValuesToApply)[Val(sliceIdx)])[j]])]
                       ELSE t
                 t2 == [t1 EXCEPT !.backgroundB0Map = t.shimmedB0Map]
             IN  recomputeCurrentsAndViewBody(t2, rank, k)

overwriteBackgroundBody(t, sliceIdx, rank, k) ==
    LET fold == t.solutionValuesToApply # None /\ sliceIdx # None
    IN  IF fold /\ (t.principleSols = None
                    \/ Val(t.solutionValuesToApply)[Val(sliceIdx)] = None)
        THEN Raise(t)
        ELSE LET t1 == IF fold
                       THEN [t EXCEPT !.principleSols =
                               Some([j \in VecIdx |->
                                       Val(t.principleSols)[j]
                                       + Val(Val(t.solutionValuesToApply)[Val(sliceIdx)])[j]])]
                       ELSE t
                 t2 == resetShimSols([t1 EXCEPT !.backgroundB0Map = t.shimmedB0Map])
             IN  recomputeCurrentsAndViewBody(t2, rank, k)

overwriteBackground ==
    /\ Started("overwriteBackground")
    /\ \E sliceIdx \in {None} \cup {Some(x) : x \in SliceIdx(numSlices)},
          rank \in RankChoices(numSlices) :
          LET o == overwriteBackgroundBody(tool, sliceIdx, rank, 1)
          IN  /\ tool' = o.t
              /\ last' = [proc |-> "overwriteBackground",
                          outcome |-> IF o.raised THEN "raised" ELSE "returned",
                          emits |-> 0, sliceIdx |-> sliceIdx]
    /\ UNCHANGED <<exsi, shim, localScans, caller, workers, batch>>

\* ------------------------------------------------ ROI, loadState --------
\* The user edits the ROI between operations: here, to one that lies outside
\* the acquired volume.
ROIChoices(S) == {Some({})}
SetROI ==
    /\ caller.pc = "idle"
    /\ Quiet
    /\ tool.backgroundB0Map # None
    /\ \E r \in ROIChoices(numSlices) :
          /\ r # tool.ROI
          /\ tool' = [tool EXCEPT !.ROI = r]
    /\ UNCHANGED <<exsi, shim, numSlices, measured, gui, stateFile, localScans, caller, workers, calls, last, pre, batch>>

\* A snapshot saveState wrote in an earlier session of the same exam, after
\* a background scan, a basis acquisition and a solve (its maps carry
\* negative tags: they were not acquired in this session).
SavedState(S) ==
    LET t0 == [InitTool(FALSE) EXCEPT
                 !.assetCalibrationDone = TRUE,
                 !.autoPrescanDone = TRUE,
                 !.principleSols = Some([j \in VecIdx |-> IF j <= 3 THEN PrescanValues[j] ELSE 0]),
                 !.backgroundB0Map = Some(AcquiredMap(S, -1, Voxels(S))),
                 !.rawBasisB0maps =
                    Some([k \in 1..NumBasis |-> Some(AcquiredMap(S, -1 - 2 * k, Voxels(S)))])]
    IN  evaluateShimImages(computeShimCurrents(t0, SliceIdx(S), 1).t).t

\* The snapshots found on disk: that one, or the one saved after the user
\* then emptied the ROI and recomputed (no slice solved).
Snapshots(S) ==
    {SavedState(S),
     [recomputeCurrentsAndViewBody([SavedState(S) EXCEPT !.ROI = Some({})],
                                   SliceIdx(S), 1).t EXCEPT !.ROI = None]}

\* The attributes saveState writes (lines 189-210), as far as they are
\* Tool attributes of this model; the ROI object and debugging are not
\* among them.
attr_names ==
    {"assetCalibrationDone", "autoPrescanDone", "backgroundB0Map", "rawBasisB0maps",
     "basisB0maps", "expectedB0Map", "shimmedB0Map", "solutions",
     "solutionValuesToApply", "principleSols", "finalMask", "shimStats"}

\* attr_dict of saveState (line 213): a copy of each named attribute.
attr_dict(t) == [name \in attr_names |-> t[name]]

\* A faulty variant of setattrAll: only the two session flags are restored.
setattrFlags(t, d) ==
    [name \in DOMAIN t |->
        IF name \in DOMAIN d /\ name \in {"assetCalibrationDone", "autoPrescanDone"}
        THEN d[name] ELSE t[name]]

\* The loop of loadState (lines 238-239): setattr(self, name, value) for
\* every item of the dictionary.
setattrAll(t, d) ==
    [name \in DOMAIN t |-> IF name \in DOMAIN d THEN d[name] ELSE t[name]]

\* saveState: the dictionary is pickled into the file, replacing it.
saveState ==
    /\ caller.pc = "idle"
    /\ Quiet
    /\ calls < MaxCalls
    /\ calls' = calls + 1
    /\ pre' = tool
    /\ stateFile' = [kind |-> "pickle", attrs |-> attr_dict(tool)]
    /\ last' = Returned("saveState", 0)
    /\ UNCHANGED <<tool, exsi, shim, numSlices, measured, gui, localScans, caller, workers, batch>>

\* What pickle.load does with the file (line 237): the dictionary of an
\* intact pickle; EOFError or UnpicklingError for a pickle cut short
\* (depending on where it was cut); UnpicklingError for bytes that are no
\* pickle.
PickleLoad(file) ==
    CASE file.kind = "pickle" -> {[exc |-> "none", value |-> file.attrs]}
      [] file.kind = "earlier" ->
            {[exc |-> "none", value |-> attr_dict(snap)] : snap \in Snapshots(numSlices)}
      [] file.kind = "truncated" ->
            {[exc |-> e, value |-> <<>>] : e \in {"EOFError", "UnpicklingError"}}
      [] file.kind = "corrupt" -> {[exc |-> "UnpicklingError", value |-> <<>>]}

\* loadState: nothing to load if the file is missing or empty (lines
\* 224-233); else the file is unpickled and every saved attribute replaces
\* the Tool's; only EOFError is caught (line 240).
loadState ==
    /\ Started("loadState")
    /\ IF stateFile.kind \in {"missing", "empty"}
       THEN /\ tool' = tool
            /\ last' = Returned("loadState", 0)
       ELSE \E r \in PickleLoad(stateFile) :
               /\ tool' = IF r.exc = "none" THEN setattrAll(tool, r.value) ELSE tool
               /\ last' = IF r.exc \in {"none", "EOFError"} THEN Returned("loadState", 0)
                          ELSE Raised("loadState", 0)
    /\ UNCHANGED <<exsi, shim, localScans, caller, workers, batch>>

Next ==
    \/ ExsiConnects
    \/ ShimConnects
    \/ ExsiTransmit
    \/ ScanCompletes
    \/ ScanFails
    \/ ShimDevice
    \/ doCalibrationScan
    \/ doFgreScan
    \/ Wait120
    \/ Clear120
    \/ WorkerStep
    \/ UpdateValsStep
    \/ ClearFirst
    \/ CountWait
    \/ CountClear
    \/ doFieldmapScan
    \/ AfterFieldmapScan
    \/ doBasisCalibrationScans
    \/ AfterBasisCalibrationScans
    \/ doEvalAppliedShims
    \/ AfterEvalAppliedShims
    \/ doAllShimmedScans
    \/ AfterShimmedSlice
    \/ setAllShimCurrents
    \/ recomputeCurrentsAndView
    \/ overwriteBackground
    \/ SetROI
    \/ loadState

Spec == Init /\ [][Next]_vars

\* ------------------------------------- computeShimCurrents on its own ----
\* The Tool once a background and a basis set were acquired, for every
\* volume of up to MaxSlices slices, every NaN region of the background and
\* of the basis maps, and every ROI.
InitCompute ==
    /\ \E S \in 1..MaxSlices :
         \E bgValid \in SUBSET Voxels(S), basisValid \in SUBSET Voxels(S),
            roi \in {None} \cup {Some(r) : r \in SUBSET Voxels(S)} :
            /\ numSlices = S
            /\ measured = bgValid
            /\ tool = [InitTool(FALSE) EXCEPT
                         !.assetCalibrationDone = TRUE,
                         !.autoPrescanDone = TRUE,
                         !.principleSols = Some([j \in VecIdx |->
                                                  IF j <= 3 THEN PrescanValues[j] ELSE 0]),
                         !.backgroundB0Map = Some(AcquiredMap(S, 2, bgValid)),
                         !.rawBasisB0maps =
                            Some([k \in 1..NumBasis |->
                                    Some(AcquiredMap(S, 2 + 2 * k, basisValid))]),
                         !.ROI = roi]
    /\ exsi = [InitExsi EXCEPT !.connected = TRUE]
    /\ shim = [InitShim EXCEPT !.connected = TRUE]
    /\ localScans = 2 + 2 * NumBasis
    /\ caller = IdleCaller
    /\ workers = <<>>
    /\ calls = 0
    /\ last = [proc |-> "none", outcome |-> "none", emits |-> 0]
    /\ pre = InitTool(FALSE)
    /\ batch = NoBatch
    /\ gui = GuiOpen
    /\ stateFile = EarlierFile

\* One call of computeShimCurrents(); rank: the slices whose system the
\* solver finds of full rank.
computeShimCurrentsCall ==
    /\ calls = 0
    /\ calls' = 1
    /\ pre' = tool
    /\ \E rank \in SUBSET SliceIdx(numSlices) :
          LET o == computeShimCurrents(tool, rank, 1)
          IN  /\ tool' = o.t
              /\ last' = [proc |-> "computeShimCurrents",
                          outcome |-> IF o.raised THEN "raised"
                                      ELSE IF o.ret THEN "success" ELSE "failure",
                          emits |-> 0, rank |-> rank]
    /\ UNCHANGED <<exsi, shim, numSlices, measured, gui, stateFile, localScans, caller, workers, batch>>

NextCompute == computeShimCurrentsCall

SpecCompute == InitCompute /\ [][NextCompute]_vars

\* ----------------------------------------- the timed waits on their own --
\* Event.wait(timeout) returns when the signal is raised or when the time is
\* up, whichever comes first: here a wait may run out while a scan is still
\* queued or running (a scan that takes longer than the timeout), and the
\* reader thread may raise a signal between a wait's return and the
\* procedure's.
InitTimed ==
    /\ \E done \in BOOLEAN :
          tool = [InitTool(FALSE) EXCEPT !.assetCalibrationDone = done]
    /\ \E m \in 0..MaxQueued :
          exsi = [InitExsi EXCEPT !.connected = TRUE,
                                  !.queue = [k \in 1..m |-> Cmd("Scan", <<>>)]]
    /\ shim = [InitShim EXCEPT !.connected = TRUE]
    /\ numSlices = ExamSlices
    /\ measured = Voxels(ExamSlices)
    /\ localScans = 0
    /\ caller = IdleCaller
    /\ workers = <<>>
    /\ calls = 0
    /\ last = [proc |-> "none", outcome |-> "none", emits |-> 0]
    /\ pre = InitTool(FALSE)
    /\ batch = NoBatch
    /\ gui = GuiOpen
    /\ stateFile = EarlierFile

\* A call of countScansCompleted(n).
countScansCompleted ==
    /\ caller.pc = "idle"
    /\ calls < MaxCalls
    /\ calls' = calls + 1
    /\ pre' = tool
    /\ \E n \in 1..MaxCount :
          caller' = Count([IdleCaller EXCEPT !.proc = "countScansCompleted"], n)
    /\ last' = Running("countScansCompleted")
    /\ UNCHANGED <<tool, exsi, shim, numSlices, measured, gui, stateFile, localScans, workers, batch>>

\* A faulty variant of CountWaitTimed: the wait has no timeout.
CountWaitUntimed ==
    /\ caller.pc = "wait"
    /\ ~exsi.no_failures \/ exsi.images_ready
    /\ IF ~exsi.no_failures
       THEN /\ exsi' = [exsi EXCEPT !.no_failures = TRUE]
            /\ caller' = [caller EXCEPT !.pc = "after", !.ok = FALSE]
       ELSE /\ caller' = [caller EXCEPT !.pc = "clear"]
            /\ UNCHANGED exsi
    /\ UNCHANGED <<tool, shim, numSlices, measured, gui, stateFile, localScans, workers, calls, last, pre, batch>>

\* One pass of the loop of countScansCompleted up to the return of its wait
\* (lines 531-540): a flagged failure ends the count; else the wait returns
\* true if the signal is raised and false if the 90 seconds run out first.
CountWaitTimed ==
    /\ caller.pc = "wait"
    /\ IF ~exsi.no_failures
       THEN /\ exsi' = [exsi EXCEPT !.no_failures = TRUE]
            /\ caller' = [caller EXCEPT !.pc = "after", !.ok = FALSE]
       ELSE /\ caller' = IF exsi.images_ready THEN [caller EXCEPT !.pc = "clear"]
                         ELSE [caller EXCEPT !.pc = "after", !.ok = FALSE]
            /\ UNCHANGED exsi
    /\ UNCHANGED <<tool, shim, numSlices, measured, gui, stateFile, localScans, workers, calls, last, pre, batch>>

\* countScansCompleted returns to its caller.
CountReturn ==
    /\ caller.pc = "after" /\ caller.proc = "countScansCompleted"
    /\ IF caller.ok THEN Finish(0) ELSE Fail(0)
    /\ UNCHANGED <<tool, exsi, shim, numSlices, measured, gui, stateFile, localScans, workers, calls, pre, batch>>

\* images_ready_event.wait(timeout=120) of doCalibrationScan and doFgreScan
\* (lines 603, 620) returns: true if the signal is raised, false if the
\* time is up.
Wait120Timed ==
    /\ caller.pc = "wait120"
    /\ IF exsi.images_ready
       THEN /\ tool' = IF caller.proc = "doCalibrationScan"
                       THEN [tool EXCEPT !.assetCalibrationDone = TRUE]
                       ELSE tool
            /\ caller' = [caller EXCEPT !.pc = "clear120"]
       ELSE /\ caller' = [caller EXCEPT !.pc = "return120"]
            /\ UNCHANGED tool
    /\ UNCHANGED <<exsi, shim, numSlices, measured, gui, stateFile, localScans, workers, calls, last, pre, batch>>

\* After a wait that ran out: nothing but the trigger (lines 608-609,
\* 621, 626-627), and the procedure returns.
Return120 ==
    /\ caller.pc = "return120"
    /\ Fail(1)
    /\ UNCHANGED <<tool, exsi, shim, numSlices, measured, gui, stateFile, localScans, workers, calls, pre, batch>>

NextTimed ==
    \/ ExsiTransmit
    \/ ScanCompletes
    \/ ScanFails
    \/ countScansCompleted
    \/ CountWaitTimed
    \/ CountClear
    \/ CountReturn
    \/ doCalibrationScan
    \/ doFgreScan
    \/ Wait120Timed
    \/ Clear120
    \/ Return120

\* The calling thread keeps running: a wait returns and the loop goes on.
SpecTimed ==
    /\ InitTimed
    /\ [][NextTimed]_vars
    /\ WF_vars(CountWaitTimed)
    /\ WF_vars(CountClear)

\* =============================================== several caller threads ===
\* Tool holds no lock and no busy flag: a macro-procedure is an ordinary
\* method, and a second thread may enter one while the first is still inside
\* its own.  Here `caller` maps each calling thread to its position.
NumThreads == 2
Threads == 1..NumThreads

InitThreads ==
    /\ \E done \in BOOLEAN :
          tool = [InitTool(FALSE) EXCEPT !.assetCalibrationDone = done]
    /\ exsi = [InitExsi EXCEPT !.connected = TRUE]
    /\ shim = [InitShim EXCEPT !.connected = TRUE]
    /\ numSlices = ExamSlices
    /\ measured = Voxels(ExamSlices)
    /\ localScans = 0
    /\ caller = [t \in Threads |-> IdleCaller]
    /\ workers = <<>>
    /\ calls = 0
    /\ last = [proc |-> "none", outcome |-> "none", emits |-> 0]
    /\ pre = InitTool(FALSE)
    /\ batch = NoBatch
    /\ gui = GuiOpen
    /\ stateFile = EarlierFile

\* Thread t enters proc; an unmet guard returns at once.
ThreadStarts(t, proc) ==
    /\ caller[t].pc = "idle"
    /\ calls < MaxCalls
    /\ calls' = calls + 1
    /\ pre' = tool
    /\ UNCHANGED <<numSlices, measured, gui, stateFile>>
ThreadGuardReturns(proc) ==
    /\ ~GuardsPass(proc)
    /\ last' = [proc |-> proc, outcome |-> "guard", emits |-> 0]
    /\ UNCHANGED <<tool, exsi, shim, localScans, caller, workers, batch>>
ThreadReturns(t, outcome) ==
    /\ caller' = [caller EXCEPT ![t] = IdleCaller]
    /\ last' = [proc |-> caller[t].proc, outcome |-> outcome, emits |-> 1]

\* doCalibrationScan (lines 595-609) entered by thread t.
ThreadCalibrationScan ==
    \E t \in Threads :
        /\ ThreadStarts(t, "doCalibrationScan")
        /\ \/ ThreadGuardReturns("doCalibrationScan")
           \/ /\ GuardsPass("doCalibrationScan")
              /\ IF ~tool.assetCalibrationDone
                 THEN /\ exsi' = [exsi EXCEPT !.queue = @ \o SingleScan(4)]
                      /\ caller' = [caller EXCEPT ![t] =
                            [IdleCaller EXCEPT !.proc = "doCalibrationScan", !.pc = "wait120"]]
                      /\ last' = Running("doCalibrationScan")
                 ELSE /\ last' = Returned("doCalibrationScan", 1)
                      /\ UNCHANGED <<exsi, caller>>
              /\ UNCHANGED <<tool, shim, localScans, workers, batch>>

\* doFgreScan (lines 611-627) entered by thread t.
ThreadFgreScan ==
    \E t \in Threads :
        /\ ThreadStarts(t, "doFgreScan")
        /\ \/ ThreadGuardReturns("doFgreScan")
           \/ /\ GuardsPass("doFgreScan")
              /\ exsi' = [exsi EXCEPT !.queue = @ \o SingleScan(5)]
              /\ caller' = [caller EXCEPT ![t] =
                    [IdleCaller EXCEPT !.proc = "doFgreScan", !.pc = "wait120"]]
              /\ last' = Running("doFgreScan")
              /\ UNCHANGED <<tool, shim, localScans, workers, batch>>

\* The 120 s wait of thread t returns.
ThreadWait120 ==
    \E t \in Threads :
        /\ caller[t].pc = "wait120"
        /\ exsi.images_ready \/ ~ScanPending
        /\ IF exsi.images_ready
           THEN /\ tool' = IF caller[t].proc = "doCalibrationScan"
                           THEN [tool EXCEPT !.assetCalibrationDone = TRUE]
                           ELSE tool
                /\ caller' = [caller EXCEPT ![t].pc = "clear120"]
                /\ UNCHANGED last
           ELSE /\ ThreadReturns(t, "failed")
                /\ UNCHANGED tool
        /\ UNCHANGED <<exsi, shim, numSlices, measured, gui, stateFile, localScans, workers, calls, pre, batch>>

ThreadClear120 ==
    \E t \in Threads :
        /\ caller[t].pc = "clear120"
        /\ exsi' = [exsi EXCEPT !.images_ready = FALSE]
        /\ localScans' = exsi.scansDone
        /\ ThreadReturns(t, "returned")
        /\ UNCHANGED <<tool, shim, numSlices, measured, gui, stateFile, workers, calls, pre, batch>>

\* doFieldmapScan (lines 654-695) entered by thread t.
ThreadFieldmapScan ==
    \E t \in Threads :
        /\ ThreadStarts(t, "doFieldmapScan")
        /\ \/ ThreadGuardReturns("doFieldmapScan")
           \/ /\ GuardsPass("doFieldmapScan")
              /\ caller' = [caller EXCEPT ![t] =
                    [IdleCaller EXCEPT !.proc = "doFieldmapScan", !.pc = "clearFirst", !.n = 2,
                                       !.obtainPrinciples = ~tool.autoPrescanDone]]
              /\ IF ~tool.autoPrescanDone
                 THEN /\ tool' = resetShimSols(resetPrincipleSols(tool, exsi.og))
                      /\ shim' = ShimZero
                 ELSE UNCHANGED <<tool, shim>>
              /\ workers' = Kickoff(calls + 1, B0MapPairScan)
              /\ batch' = NewBatch("doFieldmapScan")
              /\ last' = Running("doFieldmapScan")
              /\ UNCHANGED <<exsi, localScans>>

\* images_ready_event.clear() after the kickoff (line 673).
ThreadClearFirst ==
    \E t \in Threads :
        /\ caller[t].pc = "clearFirst"
        /\ exsi' = [exsi EXCEPT !.images_ready = FALSE]
        /\ caller' = [caller EXCEPT ![t].pc = "wait"]
        /\ UNCHANGED <<tool, shim, numSlices, measured, gui, stateFile, localScans, workers, calls, last, pre, batch>>

\* countScansCompleted(2) run by thread t: one pass up to its wait ...
ThreadCountWait ==
    \E t \in Threads :
        /\ caller[t].pc = "wait"
        /\ ~exsi.no_failures \/ exsi.images_ready \/ ~ScanPending
        /\ IF ~exsi.no_failures
           THEN /\ exsi' = [exsi EXCEPT !.no_failures = TRUE]
                /\ caller' = [caller EXCEPT ![t].pc = "after", ![t].ok = FALSE]
           ELSE /\ caller' = IF exsi.images_ready
                             THEN [caller EXCEPT ![t].pc = "clear"]
                             ELSE [caller EXCEPT ![t].pc = "after", ![t].ok = FALSE]
                /\ UNCHANGED exsi
        /\ UNCHANGED <<tool, shim, numSlices, measured, gui, stateFile, localScans, workers, calls, last, pre, batch>>

\* ... and the clear that follows a wait that returned true.
ThreadCountClear ==
    \E t \in Threads :
        /\ caller[t].pc = "clear"
        /\ exsi' = [exsi EXCEPT !.images_ready = FALSE]
        /\ IF caller[t].i + 1 < caller[t].n
           THEN /\ caller' = [caller EXCEPT ![t].pc = "wait", ![t].i = @ + 1]
                /\ UNCHANGED localScans
           ELSE /\ caller' = [caller EXCEPT ![t].pc = "after", ![t].i = @ + 1, ![t].ok = TRUE]
                /\ localScans' = exsi.scansDone
        /\ UNCHANGED <<tool, shim, numSlices, measured, gui, stateFile, workers, calls, last, pre, batch>>

\* Lines 675-695 run by thread t: the first map of the session becomes the
\* background; a failed count clears the signals.
ThreadAfterFieldmapScan ==
    \E t \in Threads :
        /\ caller[t].pc = "after"
        /\ IF caller[t].ok
           THEN LET t1 == IF tool.backgroundB0Map # None
                          THEN computeShimmedB0Map(tool, None, numSlices, exsi.scansDone, measured)
                          ELSE computeBackgroundB0map(tool, numSlices, exsi.scansDone,
                                                      measured).t
                    t2 == IF caller[t].obtainPrinciples
                          THEN resetPrincipleSols(t1, exsi.og) ELSE t1
                    o == evaluateShimImages(t2)
                IN  /\ tool' = o.t
                    /\ ThreadReturns(t, IF o.raised THEN "raised" ELSE "returned")
                    /\ UNCHANGED exsi
           ELSE /\ exsi' = ClearSignals
                /\ ThreadReturns(t, "failed")
                /\ UNCHANGED tool
        /\ UNCHANGED <<shim, numSlices, measured, gui, stateFile, localScans, workers, calls, pre, batch>>

NextThreads ==
    \/ ExsiTransmit
    \/ ScanCompletes
    \/ ScanFails
    \/ ShimDevice
    \/ WorkerStep
    \/ ThreadCalibrationScan
    \/ ThreadFgreScan
    \/ ThreadWait120
    \/ ThreadClear120
    \/ ThreadFieldmapScan
    \/ ThreadClearFirst
    \/ ThreadCountWait
    \/ ThreadCountClear
    \/ ThreadAfterFieldmapScan

SpecThreads == InitThreads /\ [][NextThreads]_vars

\* ================================================ the snapshot file ======
\* saveState and loadState with what may happen to the file in between.
\* A session starts with a fresh Tool, or with one that loaded the snapshot
\* of an earlier session; the file is missing, empty, or that snapshot.
InitState ==
    /\ \E t \in {InitTool(FALSE)}
                   \cup {[snap EXCEPT !.ROI = None] : snap \in Snapshots(ExamSlices)} :
          tool = t
    /\ exsi = InitExsi
    /\ shim = InitShim
    /\ numSlices = ExamSlices
    /\ measured = Voxels(ExamSlices)
    /\ gui = GuiOpen
    /\ \E kind \in {"missing", "empty", "earlier"} : stateFile = [EarlierFile EXCEPT !.kind = kind]
    /\ localScans = 0
    /\ caller = IdleCaller
    /\ workers = <<>>
    /\ calls = 0
    /\ last = [proc |-> "none", outcome |-> "none", emits |-> 0]
    /\ pre = InitTool(FALSE)
    /\ batch = NoBatch

\* The file is damaged outside the program: a write cut short (a killed
\* process, a full disk) leaves an empty or truncated file, anything else
\* that overwrites it leaves bytes that are no pickle; or it is removed.
FileDamaged ==
    /\ stateFile.kind \in {"pickle", "earlier"}
    /\ \E kind \in {"missing", "empty", "truncated", "corrupt"} :
          stateFile' = [kind |-> kind, attrs |-> <<>>]
    /\ UNCHANGED <<tool, exsi, shim, numSlices, measured, gui, localScans, caller, workers, calls, last, pre, batch>>

NextState ==
    \/ saveState
    \/ loadState
    \/ FileDamaged
    \/ SetROI
    \/ recomputeCurrentsAndView
    \/ overwriteBackground

SpecState == InitState /\ [][NextState]_vars

\* ==================================================== ExsiGui.py ==========
\* The window of ExsiGui.py drives the same two clients from its GUI thread.
\* Here `tool` holds the window's attributes of the same names
\* (assetCalibrationDone, autoPrescanDone), `caller` is the GUI thread, and
\* `batch.queued` the commands the last slot sent to either client.
\* Amplitudes are in mA (1.0 A is 1000).
maxShimCurrent == 2400

InitGui ==
    /\ tool = InitTool(FALSE)
    /\ exsi = InitExsi
    /\ shim = InitShim
    /\ numSlices = ExamSlices
    /\ measured = Voxels(ExamSlices)
    /\ gui = GuiOpen
    /\ stateFile = EarlierFile
    /\ localScans = 0
    /\ caller = IdleCaller
    /\ workers = <<>>
    /\ calls = 0
    /\ last = [proc |-> "none", outcome |-> "none", emits |-> 0]
    /\ pre = InitTool(FALSE)
    /\ batch = NoBatch

\* A slot runs on the GUI thread when that thread is free.
Clicked(proc) ==
    /\ caller.pc = "idle"
    /\ calls < MaxCalls
    /\ calls' = calls + 1
    /\ pre' = tool
    /\ UNCHANGED <<numSlices, measured, gui, stateFile, localScans, workers>>
\* What a slot sent to the scanner client.
SentToExsi(proc, cmds) ==
    /\ exsi' = [exsi EXCEPT !.queue = @ \o cmds]
    /\ batch' = [id |-> calls + 1, proc |-> proc, queued |-> cmds, worker |-> "none"]

\* doCalibrationScan (lines 327-337).
GuiCalibrationScan ==
    /\ Clicked("doCalibrationScan")
    /\ IF ~tool.assetCalibrationDone
       THEN /\ SentToExsi("doCalibrationScan", SingleScan(4))
            /\ caller' = [IdleCaller EXCEPT !.proc = "doCalibrationScan", !.pc = "wait120"]
            /\ last' = Running("doCalibrationScan")
       ELSE /\ last' = Returned("doCalibrationScan", 0)
            /\ UNCHANGED <<exsi, caller, batch>>
    /\ UNCHANGED <<tool, shim>>

\* doFgreScan (lines 339-355).
GuiFgreScan ==
    /\ Clicked("doFgreScan")
    /\ IF tool.assetCalibrationDone
       THEN /\ SentToExsi("doFgreScan", SingleScan(5))
            /\ caller' = [IdleCaller EXCEPT !.proc = "doFgreScan", !.pc = "wait120"]
            /\ last' = Running("doFgreScan")
       ELSE /\ last' = [proc |-> "doFgreScan", outcome |-> "guard", emits |-> 0]
            /\ UNCHANGED <<exsi, caller, batch>>
    /\ UNCHANGED <<tool, shim>>

\* images_ready_event.wait(timeout=120) of both (lines 335-337, 350-355).
GuiWait120 ==
    /\ caller.pc = "wait120"
    /\ exsi.images_ready \/ ~ScanPending
    /\ IF exsi.images_ready
       THEN /\ tool' = IF caller.proc = "doCalibrationScan"
                       THEN [tool EXCEPT !.assetCalibrationDone = TRUE]
                       ELSE tool
            /\ exsi' = [exsi EXCEPT !.images_ready = FALSE]
            /\ localScans' = IF caller.proc = "doFgreScan" THEN exsi.scansDone ELSE localScans
            /\ last' = [last EXCEPT !.outcome = "returned"]
       ELSE /\ last' = [last EXCEPT !.outcome = "failed"]
            /\ UNCHANGED <<tool, exsi, localScans>>
    /\ caller' = IdleCaller
    /\ UNCHANGED <<shim, numSlices, measured, gui, stateFile, workers, calls, pre, batch>>

\* One pass of the loop of iterateBasisPairScan (lines 360-374) on the
\* attributes t: echo i of the pair.
guiSequence(t, i) ==
    Eff([t EXCEPT !.autoPrescanDone = TRUE],
        <<Cmd("SelectTask", <<>>), Cmd("ActivateTask", <<>>),
          Cmd("SetCVs", <<1, 3300>>),
          Cmd("SetCVs", <<2, IF i = 0 THEN 1104 ELSE 1604>>),
          Cmd("SetCVs", <<3, 13>>), Cmd("SetCVs", <<4, 64>>),
          Cmd("PatientTable", <<>>),
          Cmd("Prescan", <<IF t.autoPrescanDone THEN 0 ELSE 1>>),
          Cmd("Scan", <<>>)>>)
iterateBasisPairScan(t) ==
    LET second(tt) == guiSequence(tt, 1)
    IN  Then(guiSequence(t, 0), second)

\* doBasisPairScan (lines 381-388).
GuiBasisPairScan ==
    /\ Clicked("doBasisPairScan")
    /\ IF tool.assetCalibrationDone
       THEN LET e == iterateBasisPairScan(tool)
            IN  /\ tool' = e.t
                /\ SentToExsi("doBasisPairScan", <<Cmd("LoadProtocol", <<3>>)>> \o e.cmds)
                /\ last' = Returned("doBasisPairScan", 0)
       ELSE /\ last' = [proc |-> "doBasisPairScan", outcome |-> "guard", emits |-> 0]
            /\ UNCHANGED <<tool, exsi, batch>>
    /\ UNCHANGED <<shim, caller>>

\* doCaliBasisPairScan(channelNum) (lines 376-379, 390-392): the load command
\* carries the channel and the calibration current of 1.0 A.
doCaliBasisPairScan(e, channelNum) ==
    LET load(tt) == Eff(tt, <<Cmd("LoadProtocol", <<3, channelNum, 1000>>)>>)
        pair(tt) == iterateBasisPairScan(tt)
    IN  Then(Then(e, load), pair)
RECURSIVE caliLoops(_, _)
caliLoops(e, i) == IF i >= NumLoops THEN e ELSE caliLoops(doCaliBasisPairScan(e, i), i + 1)

\* doLoopCalibrationScans (lines 394-401): its test of the asset calibration
\* is commented out.
GuiLoopCalibrationScans ==
    /\ Clicked("doLoopCalibrationScans")
    /\ LET e == caliLoops(Eff(tool, <<>>), 0)
       IN  /\ tool' = e.t
           /\ SentToExsi("doLoopCalibrationScans", e.cmds)
           /\ last' = Returned("doLoopCalibrationScans", 0)
    /\ UNCHANGED <<shim, caller>>

\* What a slot sent to the shim client.
SentToShim(proc, cmds) ==
    /\ shim' = [shim EXCEPT !.queue = @ \o cmds]
    /\ batch' = [id |-> calls + 1, proc |-> proc, queued |-> cmds, worker |-> "none"]
    /\ last' = Returned(proc, 0)
    /\ UNCHANGED <<tool, exsi, caller>>

\* The requests a caller may make: any channel, any amplitude.
GuiChannels == (0 - 1)..NumLoops
GuiCurrents == {0 - 3000, 1000, 3000}

\* shimSetCurrent (lines 478-484): board 0, channel and current as they stand
\* in the two entry fields, whose validators (lines 229, 231) accept a
\* channel of 0..numLoops-1 and a current of -2.4..2.4 A.
GuiShimSetCurrent ==
    /\ Clicked("shimSetCurrent")
    /\ \E channel \in {c \in GuiChannels : 0 <= c /\ c <= NumLoops - 1},
          current \in {a \in GuiCurrents : 0 - maxShimCurrent <= a /\ a <= maxShimCurrent} :
          SentToShim("shimSetCurrent", <<Cmd("X", <<0, channel, current>>)>>)

\* shimSetCurrentManual(channel, current, board=0) (lines 486-488).
shimSetCurrentManual(channel, current, board) == Cmd("X", <<board, channel, current>>)
GuiShimSetCurrentManual ==
    /\ Clicked("shimSetCurrentManual")
    /\ \E channel \in GuiChannels, current \in GuiCurrents :
          SentToShim("shimSetCurrentManual", <<shimSetCurrentManual(channel, current, 0)>>)

\* shimSetAllCurrents(currents) (lines 490-492).
shimSetAllCurrents(currents) ==
    [k \in 1..NumLoops |-> shimSetCurrentManual((k - 1) % 8, currents[k - 1], (k - 1) \div 8)]
GuiShimSetAllCurrents ==
    /\ Clicked("shimSetAllCurrents")
    /\ \E currents \in [0..(NumLoops - 1) -> GuiCurrents] :
          SentToShim("shimSetAllCurrents", shimSetAllCurrents(currents))

NextGui ==
    \/ ExsiConnects
    \/ ShimConnects
    \/ ExsiTransmit
    \/ ScanCompletes
    \/ ScanFails
    \/ ShimDevice
    \/ GuiCalibrationScan
    \/ GuiFgreScan
    \/ GuiWait120
    \/ GuiBasisPairScan
    \/ GuiLoopCalibrationScans
    \/ GuiShimSetCurrent
    \/ GuiShimSetCurrentManual
    \/ GuiShimSetAllCurrents

SpecGui == InitGui /\ [][NextGui]_vars

\* ================================================== the log monitors ====
\* ExsiGui's two LogMonitorThreads (ExsiGui.py lines 16-37) and the window's
\* closeEvent (lines 590-607).
MaxLines == 2
MonitorNames == {"exsiLogMonitorThread", "shimLogMonitorThread"}

\* A client writes a line to the log file a monitor follows.
LogWritten(m) ==
    /\ gui[m].written < MaxLines
    /\ gui' = [gui EXCEPT ![m].written = @ + 1,
                          ![m].unread = IF gui[m].pc = "started" THEN 0 ELSE @ + 1]
    /\ UNCHANGED <<tool, exsi, shim, numSlices, measured, stateFile, localScans, caller, workers, calls, last, pre, batch>>

\* One step of LogMonitorThread.run() in thread m: its first statement sets
\* running (line 25) and the file is opened at its end (26-28); then the
\* loop: the test of running (29), readline (30), and either the sleep of
\* 0.1 s (31-33) or the emission of the line (34).
run(m) ==
    /\ \/ /\ gui[m].pc = "started"
          /\ gui' = [gui EXCEPT ![m].running = TRUE, ![m].unread = 0, ![m].pc = "while"]
       \/ /\ gui[m].pc = "while"
          /\ gui' = [gui EXCEPT ![m].pc = IF gui[m].running THEN "readline" ELSE "finished"]
       \/ /\ gui[m].pc = "readline"
          /\ gui' = IF gui[m].unread = 0
                    THEN [gui EXCEPT ![m].pc = "sleep"]
                    ELSE [gui EXCEPT ![m].unread = @ - 1, ![m].pc = "while"]
       \/ /\ gui[m].pc = "sleep"
          /\ gui' = [gui EXCEPT ![m].pc = "while"]
    /\ UNCHANGED <<tool, exsi, shim, numSlices, measured, stateFile, localScans, caller, workers, calls, last, pre, batch>>

\* LogMonitorThread.stop() (lines 36-37).
stop(g, m) == [g EXCEPT ![m].running = FALSE]

\* closeEvent in the GUI thread: stop() and wait() on the scanner log's
\* monitor, then on the shim log's (lines 592-597); wait() returns once the
\* thread's run() has returned.
closeEvent ==
    /\ \/ /\ gui.closeEvent = "open"
          /\ gui' = [stop(gui, "exsiLogMonitorThread") EXCEPT !.closeEvent = "wait_exsi"]
       \/ /\ gui.closeEvent = "wait_exsi"
          /\ gui.exsiLogMonitorThread.pc = "finished"
          /\ gui' = [stop(gui, "shimLogMonitorThread") EXCEPT !.closeEvent = "wait_shim"]
       \/ /\ gui.closeEvent = "wait_shim"
          /\ gui.shimLogMonitorThread.pc = "finished"
          /\ gui' = [gui EXCEPT !.closeEvent = "closed"]
    /\ UNCHANGED <<tool, exsi, shim, numSlices, measured, stateFile, localScans, caller, workers, calls, last, pre, batch>>

InitMonitors ==
    /\ tool = InitTool(FALSE)
    /\ exsi = InitExsi
    /\ shim = InitShim
    /\ numSlices = ExamSlices
    /\ measured = Voxels(ExamSlices)
    /\ localScans = 0
    /\ caller = IdleCaller
    /\ workers = <<>>
    /\ calls = 0
    /\ last = [proc |-> "none", outcome |-> "none", emits |-> 0]
    /\ pre = InitTool(FALSE)
    /\ batch = NoBatch
    /\ gui = GuiOpen
    /\ stateFile = EarlierFile

NextMonitors ==
    \/ \E m \in MonitorNames : LogWritten(m)
    \/ \E m \in MonitorNames : run(m)
    \/ closeEvent

\* Every thread keeps running: a started thread is scheduled, the loop goes
\* on, and the GUI thread handles the close event once it is delivered.
SpecMonitors ==
    /\ InitMonitors
    /\ [][NextMonitors]_vars
    /\ \A m \in MonitorNames : WF_vars(run(m))
    /\ WF_vars(closeEvent /\ gui.closeEvent # "open")

\* ======================================================= properties ======
\* The procedures that carry a guard.
GuardedProcs ==
    {"doCalibrationScan", "doFgreScan", "doFieldmapScan", "doBasisCalibrationScans",
     "doEvalAppliedShims", "doAllShimmedScans", "setAllShimCurrents"}
\* The procedures that wait for a batch of scans.
ScanningProcs ==
    {"doFieldmapScan", "doBasisCalibrationScans", "doEvalAppliedShims", "doAllShimmedScans"}
\* The condition a guard names, as it is (whatever the debugging flag).
ConditionMet(g) ==
    CASE g = "exsi" -> exsi.connected
      [] g = "shim" -> shim.connected
      [] g = "asset" -> tool.assetCalibrationDone
GuardUnmet(proc) == \E k \in 1..Len(Guards(proc)) : ~ConditionMet(Guards(proc)[k])
\* This step is the user starting proc.
StartOf(proc) == calls' = calls + 1 /\ last'.proc = proc
\* The call returns at once: nothing queued, no thread started, no tool
\* state changed, no exception.
ReturnsUntouched ==
    /\ UNCHANGED <<tool, exsi, shim, workers, batch>>
    /\ caller'.pc = "idle"
    /\ last'.outcome \in {"guard", "returned"}
NumScans(q) == Cardinality({k \in 1..Len(q) : q[k].op = "Scan"})
CoilDriven(q, c, amp) == \E k \in 1..Len(q) : q[k] = Cmd("X", <<c, amp>>)

C2_AssetCalibrationOneShot ==
    [][/\ (tool.assetCalibrationDone /\ ~StartOf("loadState")) => tool'.assetCalibrationDone
       /\ (StartOf("doCalibrationScan") /\ tool.assetCalibrationDone) => ReturnsUntouched]_vars

\* doCalibrationScan was called with the calibration done, scanner connected.
C2_Witness ==
    /\ last.proc = "doCalibrationScan"
    /\ pre.assetCalibrationDone
    /\ exsi.connected
    /\ last.outcome = "returned"

\* The worker of the last call, a basis batch started with the principal
\* solution set and the debugging flag off, has ended.
BasisBatchQueued ==
    /\ ~tool.debugging
    /\ batch.proc = "doBasisCalibrationScans"
    /\ batch.id = calls
    /\ batch.worker # "running"
    /\ pre.principleSols # None

\* C3: the worker of doBasisCalibrationScans queues numLoops + 3 field-map
\* pairs, so exactly the 2 x (numLoops + 3) Scan commands the caller waits for.
C3_BasisBatchQueuesEveryPair ==
    BasisBatchQueued =>
        /\ batch.worker = "done"
        /\ NumScans(batch.queued) = 2 * (NumLoops + 3)

\* C4: for every coil k the basis batch queues the loop commands that drive
\* coil k to the calibration current plus its principal offset and every
\* other coil to its principal offset.
C4_BasisBatchDrivesEveryCoil ==
    BasisBatchQueued =>
        \A k \in 0..(NumLoops - 1) :
            /\ CoilDriven(batch.queued, k, loopCalCurrent + Val(pre.principleSols)[k + 4])
            /\ \A j \in 0..(NumLoops - 1) \ {k} :
                  CoilDriven(batch.queued, j, Val(pre.principleSols)[j + 4])

\* C5: with a solution for every slice (debugging off),
\* sendSyncedLoopSolution(c, s) queues one loop command of amplitude
\* principleSols[c + 4] + solutionValuesToApply[s][c + 4] and does not raise,
\* so setAllShimCurrents returns normally.
C5_LoopCommandAmplitude ==
    (/\ ~tool.debugging
     /\ last.proc = "setAllShimCurrents"
     /\ last.outcome # "guard"
     /\ pre.principleSols # None
     /\ pre.solutionValuesToApply # None
     /\ \A s \in DOMAIN Val(pre.solutionValuesToApply) :
           Val(pre.solutionValuesToApply)[s] # None)
    => /\ last.outcome = "returned"
       /\ \A s \in DOMAIN Val(pre.solutionValuesToApply), c \in 0..(NumLoops - 1) :
             LET e == sendSyncedLoopSolution(pre, c, Some(s), FALSE, FALSE)
             IN  /\ ~e.raised
                 /\ e.cmds = <<Cmd("X", <<c, Val(pre.principleSols)[c + 4]
                                           + Val(Val(pre.solutionValuesToApply)[s])[c + 4]>>)>>

\* C6: when the count of a basis batch reports a timeout or failure, the
\* raw-basis buffer is unset, and neither the processed basis maps nor
\* anything computeShimCurrents writes has changed since the call began.
C6_FailedBasisBatchStoresNothing ==
    (last.proc = "doBasisCalibrationScans" /\ last.outcome = "failed") =>
        /\ tool.rawBasisB0maps = None
        /\ tool.basisB0maps = pre.basisB0maps
        /\ tool.finalMask = pre.finalMask
        /\ tool.solutions = pre.solutions
        /\ tool.solutionValuesToApply = pre.solutionValuesToApply
        /\ tool.solverMasks = pre.solverMasks
        /\ tool.expectedB0Map = pre.expectedB0Map

\* A basis batch started on a tool that held basis maps has failed.
C6_Witness ==
    /\ last.proc = "doBasisCalibrationScans"
    /\ last.outcome = "failed"
    /\ pre.rawBasisB0maps # None
    /\ pre.basisB0maps[1] # None

\* C7: after a scanning procedure (debugging off) ends with a timeout or
\* failure the background, the raw and processed basis maps, the solutions and the applied
\* values are what they were before the call, and a recomputation that
\* succeeded on them before the call still does.
C7_FailurePreservesLastGood ==
    (~tool.debugging /\ last.proc \in ScanningProcs /\ last.outcome = "failed") =>
        /\ tool.backgroundB0Map = pre.backgroundB0Map
        /\ tool.rawBasisB0maps = pre.rawBasisB0maps
        /\ tool.basisB0maps = pre.basisB0maps
        /\ tool.solutions = pre.solutions
        /\ tool.solutionValuesToApply = pre.solutionValuesToApply
        /\ (~recomputeCurrentsAndViewBody(pre, SliceIdx(numSlices), 1).raised
               => ~recomputeCurrentsAndViewBody(tool, SliceIdx(numSlices), 1).raised)

\* C8: once a scan of a batch timed out or failed (debugging off), the
\* caller does not go on waiting for further scans of the batch, and after
\* the failure is reported no Scan command the batch's worker queued is
\* transmitted to the scanner.
C8_FailureAbortsTheBatch ==
    [][/\ ~(~tool.debugging /\ caller.pc = "after" /\ ~caller.ok /\ caller'.pc = "wait")
       /\ (/\ ~tool.debugging
           /\ last.outcome = "failed"
           /\ batch.id = calls
           /\ NumScans(exsi.queue) <= NumScans(batch.queued))
          => ~(~exsi.scanning /\ exsi'.scanning)]_vars

\* C9: the mask handed to the solver for slice i of S slices is finalMask
\* restricted to the slices i-1, i, i+1 that exist.
C9_SolveMaskIsNeighbourhood ==
    tool.solverMasks # None =>
        LET S == NumSlicesOf(Val(tool.backgroundB0Map))
        IN  \A i \in SliceIdx(S) :
               Val(tool.solverMasks)[i] =
                  {v \in Val(tool.finalMask) : v[1] \in {i - 1, i, i + 1} \cap SliceIdx(S)}

\* computeShimCurrents ran on a volume with an interior slice and a mask that
\* has voxels in every slice.
C9_Witness ==
    /\ last.proc = "computeShimCurrents"
    /\ tool.solverMasks # None
    /\ numSlices >= 3
    /\ Val(tool.finalMask) = Voxels(numSlices)

\* C10: computeShimCurrents returns failure iff the solver returns null for
\* every slice; every slice's entry of solutions is what the solver returned
\* for it (null for a slice that failed), and on success the expected map is
\* all NaN in every slice that failed.
C10_FailureIffEverySliceFails ==
    (last.proc = "computeShimCurrents" /\ last.outcome # "raised") =>
        LET sols == Val(tool.solutions)
            solved(i) == solveCurrents(Val(tool.solverMasks)[i], i \in last.rank, 1, i)
        IN  /\ (last.outcome = "failure") <=> (\A i \in DOMAIN sols : solved(i) = None)
            /\ \A i \in DOMAIN sols : sols[i] = solved(i)
            /\ last.outcome = "success" =>
                  \A i \in DOMAIN sols :
                     solved(i) = None => Val(tool.expectedB0Map)[i] = NaNSlice
            /\ last.outcome = "failure" => tool.expectedB0Map = pre.expectedB0Map

\* computeShimCurrents succeeded with one slice solved and another not,
\* although the background is measured there.
C10_Witness ==
    /\ last.proc = "computeShimCurrents"
    /\ last.outcome = "success"
    /\ \E i, j \in DOMAIN Val(tool.solutions) :
          /\ Val(tool.solutions)[i] = None
          /\ Val(tool.backgroundB0Map)[i].valid # {}
          /\ Val(tool.solutions)[j] # None

\* C11: getSolutionsToApply leaves solutions as the solver returned them and
\* gives every slice an applied vector that is null iff the solution is null,
\* else of the same length with entry 0 copied, entries 1..3 multiplied by
\* gradientCalStrength and entries 4.. multiplied by loopCalCurrent.
C11_AppliedValuesAreScaledSolutions ==
    (last.proc = "computeShimCurrents" /\ last.outcome # "raised") =>
        LET sols == Val(tool.solutions)
            applied == Val(tool.solutionValuesToApply)
        IN  /\ DOMAIN applied = DOMAIN sols
            /\ \A i \in DOMAIN sols :
                  /\ sols[i] = solveCurrents(Val(tool.solverMasks)[i], i \in last.rank, 1, i)
                  /\ (applied[i] = None) <=> (sols[i] = None)
                  /\ sols[i] # None =>
                        /\ DOMAIN Val(applied[i]) = DOMAIN Val(sols[i])
                        /\ \A j \in DOMAIN Val(sols[i]) :
                              Val(applied[i])[j] =
                                 IF j = 0 THEN Val(sols[i])[j]
                                 ELSE IF j \in 1..3 THEN Val(sols[i])[j] * gradientCalStrength
                                 ELSE Val(sols[i])[j] * loopCalCurrent

\* getSolutionsToApply ran on solutions of which one is null and another is
\* a vector with a nonzero center frequency, gradient and current.
C11_Witness ==
    /\ last.proc = "computeShimCurrents"
    /\ tool.solutionValuesToApply # None
    /\ \E i, j \in DOMAIN Val(tool.solutions) :
          /\ Val(tool.solutions)[i] = None
          /\ Val(tool.solutionValuesToApply)[i] = None
          /\ Val(tool.solutions)[j] # None
          /\ \A x \in VecIdx : Val(Val(tool.solutions)[j])[x] # 0

\* The raw-basis buffer and the basis set hold numLoops + 3 entries.
BasisBuffersSized(t) ==
    /\ t.rawBasisB0maps # None
    /\ Len(Val(t.rawBasisB0maps)) = NumLoops + 3
    /\ Len(t.basisB0maps) = NumLoops + 3

\* C12: in every reachable state the raw-basis buffer and the processed basis
\* set are sequences of exactly numLoops + 3 entries (maps or unset markers).
C12_BasisBuffersKeepTheirLength ==
    ~tool.debugging => BasisBuffersSized(tool)

\* The slices with a non-null solution.
Solved(t) ==
    IF t.solutions = None THEN {}
    ELSE {i \in DOMAIN Val(t.solutions) : Val(t.solutions)[i] # None}
\* The last operation is doAllShimmedScans, called with its guards met.
AllShimmedCalled ==
    /\ last.proc = "doAllShimmedScans"
    /\ ~tool.debugging
    /\ exsi.connected /\ shim.connected /\ pre.assetCalibrationDone
\* The slices the running doAllShimmedScans applies and scans.
SlicesShimmed == caller.startIdx..(caller.startIdx + caller.numindex - 1)

\* C13: called with solutions of which at least one is not null,
\* doAllShimmedScans starts a batch that, for every solved slice, drives every
\* coil and queues one field-map pair: two Scan commands per solved slice.
C13_EverySolvedSliceIsShimmedAndScanned ==
    (AllShimmedCalled /\ Solved(pre) # {}) =>
        /\ batch.id = calls
        /\ batch.proc = "doAllShimmedScans"
        /\ batch.worker # "running" =>
              /\ NumScans(batch.queued) = 2 * Cardinality(Solved(pre))
              /\ \A c \in 0..(NumLoops - 1) :
                    \E k \in 1..Len(batch.queued) :
                       batch.queued[k].op = "X" /\ batch.queued[k].args[1] = c

\* C14: the slices doAllShimmedScans applies and scans are exactly the slices
\* with a non-null solution, and its worker ends without an exception.
C14_OnlySolvedSlicesAreShimmed ==
    (~tool.debugging /\ batch.proc = "doAllShimmedScans" /\ batch.id = calls) =>
        /\ caller.proc = "doAllShimmedScans" => SlicesShimmed = Solved(pre)
        /\ batch.worker # "raised"

\* C15: called when every slice's solution is null, doAllShimmedScans returns
\* normally after reporting that there is no slice to shim: no batch is
\* started, nothing is queued and the caller does not wait.
C15_NoSliceToShimReturnsAtOnce ==
    (AllShimmedCalled /\ pre.solutions # None /\ Solved(pre) = {}) =>
        /\ last.outcome = "returned"
        /\ last.emits = 1
        /\ caller.pc = "idle"
        /\ batch.id # calls

\* The slices in which the shimmed map differs between two Tool states.
ShimmedSlicesChanged(t1, t2) ==
    {s \in SliceIdx(numSlices) :
        (IF t1.shimmedB0Map = None THEN NaNSlice ELSE Val(t1.shimmedB0Map)[s])
        # (IF t2.shimmedB0Map = None THEN NaNSlice ELSE Val(t2.shimmedB0Map)[s])}
\* The slices whose pair scan completed and whose recording is still to come.
SlicesToRecord ==
    {Head(workers[w].prog).args[1] :
        w \in {x \in 1..Len(workers) : Head(workers[x].prog).op = "updateVals"}}

\* C16: during doAllShimmedScans a step changes at most the slice of the
\* shimmed map whose pair scan completed and is being recorded (every other
\* slice keeps its value), and the step that ends a slice whose pair scan
\* timed out or failed changes no slice.
C16_RecordingTouchesOnlyItsSlice ==
    [][(last.proc = "doAllShimmedScans" /\ ~tool.debugging) =>
          /\ Cardinality(ShimmedSlicesChanged(tool, tool')) <= 1
          /\ ShimmedSlicesChanged(tool, tool') \subseteq SlicesToRecord
          /\ (caller.pc = "after" /\ ~caller.ok /\ caller' # caller) =>
                ShimmedSlicesChanged(tool, tool') = {}]_vars

C18_CountAlwaysReturns ==
    /\ [](caller.proc = "countScansCompleted" =>
            /\ caller.i <= caller.n
            /\ (caller.pc = "after" /\ exsi.scansDone = 0) =>
                  (~caller.ok /\ caller.i = 0))
    /\ (caller.proc = "countScansCompleted" /\ caller.pc = "wait")
          ~> (caller.pc = "after")

\* countScansCompleted(n), n > 1, returned failure although no scan failed
\* and none completed: its first wait ran out.
C18_Witness ==
    /\ caller.proc = "countScansCompleted"
    /\ caller.pc = "after"
    /\ ~caller.ok
    /\ caller.n > 1
    /\ exsi.scansDone = 0
    /\ exsi.failed = 0

\* C19: a macro-procedure whose wait timed out returns without raising, and
\* with the images-ready signal cleared when control is back with the caller.
C19_TimeoutReturnsWithSignalCleared ==
    [][(~tool.debugging /\ caller.pc # "idle" /\ caller'.pc = "idle"
        /\ last'.proc \in GuardedProcs /\ last'.outcome # "returned") =>
          /\ last'.outcome = "failed"
          /\ ~exsi'.images_ready]_vars

\* C20: once a macro-procedure has ended on a scan timeout or failure, the
\* next scanning macro-procedure the caller starts (nothing having cleared the
\* error in between) does not run: it queues no command and starts no thread.
C20_FailureBlocksTheRetry ==
    [][(/\ ~tool.debugging
        /\ last.outcome = "failed"
        /\ \E proc \in ScanningProcs \cup {"doCalibrationScan", "doFgreScan"} :
              StartOf(proc)) =>
          /\ UNCHANGED <<exsi, shim, workers, batch>>
          /\ caller'.pc = "idle"]_vars

\* C21: whatever the interleaving of macro-procedures entered from different
\* caller threads, at most one thread waits on images_ready at a time, and no
\* thread queues a batch while another thread's batch is still to complete
\* (that thread is still inside its procedure).
C21_OneWaitOneBatch ==
    /\ Cardinality({t \in Threads : caller[t].pc \in {"wait120", "wait"}}) <= 1
    /\ Cardinality({t \in Threads : caller[t].pc # "idle"}) <= 1

\* C22: no completion of the current batch is lost.  When the scanner has
\* completed all n scans of the session's first batch and has flagged no
\* failure, countScansCompleted(n) has returned success, however the reader
\* thread, the kickoff worker and the caller were interleaved.
C22_NoCompletionLost ==
    ( /\ calls = 1
      /\ caller.pc = "after"
      /\ batch.worker = "done"
      /\ NumScans(batch.queued) = caller.n
      /\ exsi.scansDone = caller.n
      /\ exsi.failed = 0 )
    => caller.ok

\* C23: loadState on a missing, empty, truncated or otherwise corrupt file
\* returns normally and leaves every Tool attribute as it was.
C23_DamagedFileIsNothingToLoad ==
    [][(StartOf("loadState") /\ stateFile.kind \in {"missing", "empty", "truncated", "corrupt"})
          => (last'.outcome = "returned" /\ tool' = tool)]_vars

C25_SetCurrentInRange ==
    \A k \in 1..Len(shim.queue) :
        LET c == shim.queue[k]
        IN  c.op = "X" =>
                /\ c.args[2] \in 0..(NumLoops - 1)
                /\ 0 - maxShimCurrent <= c.args[3] /\ c.args[3] <= maxShimCurrent

\* C26: after construction principleSols is always set, a vector of
\* numLoops + 4 entries.
C26_PrincipalSolutionSet ==
    /\ tool.principleSols # None
    /\ DOMAIN Val(tool.principleSols) = VecIdx

\* C27: no procedure other than the calibration scan itself queues a Scan
\* while assetCalibrationDone is false.
C27_ScanOnlyAfterAssetCalibration ==
    [][(batch' # batch /\ batch'.proc # "doCalibrationScan" /\ NumScans(batch'.queued) > 0)
          => tool.assetCalibrationDone]_vars

\* C28: whenever countScansCompleted returns, no_failures is set; and no
\* call of it starts with a failure flagged before the call.
C28_FailureStaysInItsBatch ==
    [][/\ (caller.proc = "countScansCompleted" /\ caller.pc = "after" /\ caller'.pc = "idle")
             => exsi'.no_failures
       /\ StartOf("countScansCompleted") => exsi.no_failures]_vars

\* C29: every "Prescan auto" queued is immediately followed by
\* GetPrescanValues, and the procedure that queues it queues it once.
C29_AutoPrescanOnceWithValues ==
    LET q == batch.queued
        auto == {k \in 1..Len(q) : q[k].op = "Prescan" /\ q[k].args[1] = 1}
    IN  /\ Cardinality(auto) <= 1
        /\ \A k \in auto : k < Len(q) /\ q[k + 1].op = "GetPrescanValues"

\* C30: autoPrescanDone is true only after a field-map scan that completed;
\* when the first field-map scan of the session has failed or timed out it
\* is still false.
C30_FailedFirstScanLeavesPrescanUndone ==
    (calls = 1 /\ last.proc = "doFieldmapScan" /\ last.outcome = "failed")
        => ~tool.autoPrescanDone

C32_RecordedPairIsTheSlicesOwn ==
    [][(last.proc = "doAllShimmedScans" /\ batch.id = calls) =>
          \A s \in ShimmedSlicesChanged(tool, tool') :
             /\ NumScans(batch.queued) >= 2
             /\ \E w \in 1..Len(workers) :
                   LET step == Head(workers[w].prog)
                   IN  /\ step.op = "updateVals"
                       /\ step.args[1] = s
                       /\ Val(tool'.shimmedB0Map)[s] =
                             compute_b0maps(1, numSlices, step.args[2], measured)[1][s]]_vars

\* C33: a call of setAllShimCurrents(sliceIdx) leaves solutions,
\* solutionValuesToApply and principleSols as they were, so a second call
\* for the same slice queues the same values as the first.
C33_SetAllShimCurrentsKeepsSolutions ==
    [][StartOf("setAllShimCurrents") =>
          /\ tool'.solutions = tool.solutions
          /\ tool'.solutionValuesToApply = tool.solutionValuesToApply
          /\ tool'.principleSols = tool.principleSols]_vars

C35_SolverHasBackgroundAndBasis ==
    [][/\ (/\ StartOf("recomputeCurrentsAndView")
           /\ ~computeMask(tool).raised
           /\ tool.backgroundB0Map # None /\ tool.basisB0maps[1] # None)
          => /\ tool.rawBasisB0maps # None
             /\ \A j \in 1..NumBasis : Val(tool.rawBasisB0maps)[j] # None
       /\ (/\ caller.pc = "after" /\ caller.proc = "doBasisCalibrationScans"
           /\ caller.ok /\ caller'.pc = "idle")
          => tool.backgroundB0Map # None]_vars

\* C36: once a background map is held, no step of an operation other than
\* loadState (which restores whatever the file holds) leaves the tool
\* without one.
C36_BackgroundStaysSet ==
    [][(tool.backgroundB0Map # None /\ last'.proc # "loadState")
          => tool'.backgroundB0Map # None]_vars

\* C37: whenever solutions is set there is a background, solutions has one
\* entry per slice of it, solutionValuesToApply is set over the same slices
\* with the same null pattern, and its values are the ones
\* getSolutionsToApply computes from the solutions.
C37_SolutionsMatchBackground ==
    tool.solutions # None =>
        /\ tool.backgroundB0Map # None
        /\ DOMAIN Val(tool.solutions) = DOMAIN Val(tool.backgroundB0Map)
        /\ tool.solutionValuesToApply # None
        /\ DOMAIN Val(tool.solutionValuesToApply) = DOMAIN Val(tool.solutions)
        /\ \A i \in DOMAIN Val(tool.solutions) :
              (Val(tool.solutions)[i] = None) = (Val(tool.solutionValuesToApply)[i] = None)
        /\ tool.solutionValuesToApply = getSolutionsToApply(tool).solutionValuesToApply

\* C38: a macro-procedure called with a trigger has emitted
\* trigger.finished exactly once when it has ended without an exception,
\* whether a guard was unmet, there was nothing to do, it succeeded or its
\* scans failed, and once its threads have ended too.
C38_TriggerOncePerCall ==
    (/\ last.proc \in {"doCalibrationScan", "doFgreScan", "doFieldmapScan",
                       "doBasisCalibrationScans", "setAllShimCurrents",
                       "doEvalAppliedShims", "doAllShimmedScans"}
     /\ last.outcome \in {"guard", "returned", "failed"}
     /\ workers = <<>>)
        => last.emits = 1

\* C39: assetCalibrationDone turns true only in doCalibrationScan and only
\* once the calibration scan that call queued (the last scan of the
\* scanner's queue) has been run to its end; a signal raised by an earlier
\* scan does not complete the calibration.
C39_CalibrationDoneByItsOwnScan ==
    [][(~tool.assetCalibrationDone /\ tool'.assetCalibrationDone) =>
          /\ caller.proc = "doCalibrationScan"
          /\ ~exsi.scanning
          /\ \A k \in 1..Len(exsi.queue) : exsi.queue[k].op # "Scan"]_vars

\* C40: once closeEvent has called stop() on the first monitor, both
\* monitors' run loops end and closeEvent's two wait() calls return,
\* whether or not a thread's run() had begun when it was stopped.
C40_CloseEventReturns ==
    (gui.closeEvent # "open") ~> (gui.closeEvent = "closed")

====
